---------------------------- MODULE Spec2Model ----------------------------
(***************************************************************************)
(* Block-synchronization core of the node: the composite chain-head        *)
(* cursor (ChainHead / BlockNStatus), the gateway forward-sync loop        *)
(* (GatewayForwardSync::run) and the steps of its three pipelines.         *)
(***************************************************************************)
EXTENDS Integers, Sequences, FiniteSets, TLC

(***************************************************************************)
(* Bounds of the model.                                                    *)
(***************************************************************************)
\* u64::MAX scaled down: stored counters live in 0..MaxU64.
MaxU64 == 3
\* target_height handed to run(): blocks 0..TargetHeight exist upstream.
TargetHeight == 1
\* config.block_parallelization / classes_parallelization /
\* apply_state_parallelization, scaled down.
BlockParallelization == 2
StateDiffsParallelization == 2
ClassesParallelization == 1
ApplyStateParallelization == 1
\* How many times the process may be stopped and started again.
MaxRestarts == 1

(***************************************************************************)
(* Option<u64>: None orders below every Some(n), as in Rust.               *)
(***************************************************************************)
None == 0 - 1

OptMax(a, b) == IF a >= b THEN a ELSE b

(***************************************************************************)
(* BlockNStatus (chain_head.rs): an AtomicU64 holding n+1 for Some(n) and  *)
(* 0 for None.                                                             *)
(***************************************************************************)
Stored == 0 .. MaxU64

\* BlockNStatus::get: load().checked_sub(1)
BlockNStatus_get(stored) == IF stored = 0 THEN None ELSE stored - 1

\* A cell that keeps the higher of the old and the new value (fetch_max).
BlockNStatus_set_monotone(old, block_n) ==
    LET new == IF block_n = None THEN 0 ELSE (block_n + 1) % (MaxU64 + 1)
    IN  IF old >= new THEN old ELSE new

\* BlockNStatus::set: store(block_n.map(|n| n + 1).unwrap_or(0)); the
\* addition is u64 addition (wrapping in a release build).
BlockNStatus_set(old, block_n) ==
    IF block_n = None THEN 0 ELSE (block_n + 1) % (MaxU64 + 1)

Facets == {"headers", "state_diffs", "classes", "transactions", "events",
           "l1_head", "global_trie"}

\* ChainHead::default(): every counter 0 (None).
ChainHead_default == [f \in Facets |-> 0]

\* ChainHead::latest_full_block_n
latest_full_block_n(h) ==
    OptMax(OptMax(OptMax(OptMax(OptMax(BlockNStatus_get(h["headers"]),
                                       BlockNStatus_get(h["state_diffs"])),
                                BlockNStatus_get(h["classes"])),
                         BlockNStatus_get(h["transactions"])),
                  BlockNStatus_get(h["events"])),
           BlockNStatus_get(h["global_trie"]))

(***************************************************************************)
(* State.                                                                  *)
(***************************************************************************)
VARIABLES
    head,        \* backend.head_status(): the in-memory ChainHead
    p2p_sync,    \* L2SyncParams.p2p_sync: peer-to-peer instead of gateway sync
    persisted,   \* row "head_status" of column BlockStorageMeta
    saved,       \* per facet, the block numbers whose data is stored
    queue,       \* per pipeline, the ranges in flight, in push order
    nextBlock,   \* next_input_block_n() of the first pipeline
    runState,    \* "running", or how run() returned: "ok" / "err"
    parLog,      \* per pipeline, range starts in the order parallel steps ended
    seqLog,      \* per pipeline, the range starts handed to sequential steps
    emitted,     \* range starts the first pipeline's next() yielded as Ok
    pushed,      \* per downstream pipeline, the range starts pushed into it
    lastStep,    \* the step taken last
    restarts,    \* process restarts so far
    notified,    \* the blocks handed to metrics.update, in call order
    cell,        \* one BlockNStatus shared by concurrent callers (its AtomicU64)
    calls,       \* per caller, the set call it is inside of, if any
    lastStore,   \* the argument of the latest store into cell
    obs,         \* the results of a reader's latest two get() calls
    ret,         \* what the latest ChainHead call returned
    imp,         \* BlockImporter: its config, the block store, the latest call
    stp,         \* one p2p pipeline step pair run on a range and its input
    bonsai,      \* BonsaiDb: live columns, snapshots, open transactions
    scan,        \* BonsaiDb::get_by_prefix: a column's content and one call
    rpc,         \* starknet_getEvents: the stored chain, a filter, the pages got
    job          \* the orchestrator's job row and the workers processing it

syncVars == <<p2p_sync, persisted, saved, queue, nextBlock, runState, parLog,
              seqLog, emitted, pushed, lastStep, restarts, notified>>
cellVars == <<cell, calls, lastStore, obs>>

\* The importer, the single steps and the trie database, each looked at
\* on its own further down.
extVars == <<imp, stp, bonsai, scan, rpc, job>>

vars == <<head, syncVars, cellVars, ret, extVars>>

\* What the forward-sync steps leave alone.
nonSyncVars == <<cellVars, ret, extVars>>

Pipelines == {"blocks", "state_diffs", "classes", "apply_state"}
Downstream == {"classes", "apply_state"}

Parallelization(p) ==
    CASE p = "blocks" -> BlockParallelization
      [] p = "state_diffs" -> StateDiffsParallelization
      [] p = "classes" -> ClassesParallelization
      [] OTHER -> ApplyStateParallelization

\* Range<u64> start..start+len
RangeBlocks(e) == e.start .. (e.start + e.len - 1)
\* Range::last()
RangeLast(e) == IF e.len = 0 THEN None ELSE e.start + e.len - 1

NoStep == [kind |-> "none", p |-> "none", start |-> 0, len |-> 0]
Step(kind, p, e) == [kind |-> kind, p |-> p, start |-> e.start, len |-> e.len]

\* No call made yet.
NoRet == [op |-> "none", val |-> None]
Callers == {1, 2}
NoCall == [pc |-> "idle", arg |-> None]
CellInit ==
    /\ cell = 0
    /\ calls = [c \in Callers |-> NoCall]
    /\ lastStore = None
    /\ obs = <<None, None>>

(***************************************************************************)
(* PipelineController.                                                     *)
(***************************************************************************)
\* can_schedule_more(): false when the parallel window is full or a
\* parallel result waits for its sequential step.
can_schedule_more(p) ==
    /\ Len(queue[p]) < Parallelization(p)
    /\ \A i \in 1 .. Len(queue[p]) : queue[p][i].st # "Ready"

\* PipelineController::new: the first block is starting_block_n + 1, or
\* genesis when there is none.
first_input_block_n(starting) == IF starting = None THEN 0 ELSE starting + 1

\* push(range, input): the range enters the parallel window.
pipeline_push(q, start, len, items) ==
    Append(q, [start |-> start, len |-> len, items |-> items, st |-> "Running"])

RemoveAt(q, i) == SubSeq(q, 1, i - 1) \o SubSeq(q, i + 1, Len(q))

\* The range next() can yield now, as an index into the window (0: none).
\* Results leave the window in push order, so only the oldest range is
\* looked at, however many later ones have finished.
next_index_unordered(p) ==
    IF \E i \in 1 .. Len(queue[p]) : queue[p][i].st \in {"Ready", "Failed"}
    THEN CHOOSE i \in 1 .. Len(queue[p]) :
            /\ queue[p][i].st \in {"Ready", "Failed"}
            /\ \A j \in (i + 1) .. Len(queue[p]) :
                    queue[p][j].st \notin {"Ready", "Failed"}
    ELSE 0

next_index(p) ==
    IF queue[p] # <<>> /\ queue[p][1].st \in {"Ready", "Failed"} THEN 1 ELSE 0

next_yields(p) == next_index(p) # 0
next_entry(p) == queue[p][next_index(p)]

(***************************************************************************)
(* starting_block_n of the steps.                                          *)
(***************************************************************************)
\* A pipeline that forgets the stored head and starts over from genesis.
starting_block_n_genesis(h) == None

\* GatewaySyncSteps::starting_block_n
GatewaySyncSteps_starting_block_n(h) == latest_full_block_n(h)

\* StateDiffsSyncSteps::starting_block_n
StateDiffsSyncSteps_starting_block_n(h) == BlockNStatus_get(h["state_diffs"])

\* ClassesSyncSteps::starting_block_n
ClassesSyncSteps_starting_block_n(h) == BlockNStatus_get(h["classes"])

\* The pipeline run() feeds with block numbers.
FirstStage == IF p2p_sync THEN "state_diffs" ELSE "blocks"

first_stage_starting_block_n(h, p2p) ==
    IF p2p THEN StateDiffsSyncSteps_starting_block_n(h)
    ELSE GatewaySyncSteps_starting_block_n(h)

(***************************************************************************)
(* Initial state: an empty database and freshly built pipelines, for       *)
(* either setting of p2p_sync.                                             *)
(***************************************************************************)
SyncInit ==
    /\ p2p_sync \in BOOLEAN
    /\ persisted = ChainHead_default
    /\ saved = [f \in Facets |-> {}]
    /\ queue = [p \in Pipelines |-> <<>>]
    /\ nextBlock = first_input_block_n(
                       first_stage_starting_block_n(ChainHead_default, p2p_sync))
    /\ runState = "running"
    /\ parLog = [p \in Pipelines |-> <<>>]
    /\ seqLog = [p \in Pipelines |-> <<>>]
    /\ emitted = <<>>
    /\ pushed = [p \in Downstream |-> <<>>]
    /\ lastStep = NoStep
    /\ restarts = 0
    /\ notified = <<>>

\* Nothing imported, no step run, an empty trie database.
ExtInit ==
    /\ imp = "idle"
    /\ stp = "idle"
    /\ bonsai = "idle"
    /\ scan = "idle"
    /\ rpc = "idle"
    /\ job = "idle"

Init ==
    /\ head = ChainHead_default
    /\ SyncInit
    /\ CellInit
    /\ ret = NoRet
    /\ ExtInit

(***************************************************************************)
(* The scheduling loop of run().                                           *)
(***************************************************************************)
\* A loop that pushes whatever the window of the first stage holds.
LoopCondition_unguarded == nextBlock <= TargetHeight

\* A loop that never pushes.
LoopCondition_never == FALSE

\* while blocks_pipeline.can_schedule_more()
\*       && blocks_pipeline.next_input_block_n() <= target_height
LoopCondition == can_schedule_more(FirstStage) /\ nextBlock <= TargetHeight

\* blocks_pipeline.push(next_input_block_n..next_input_block_n + 1, once(()))
RunSchedule ==
    /\ runState = "running"
    /\ LoopCondition
    /\ queue' = [queue EXCEPT ![FirstStage] = pipeline_push(@, nextBlock, 1, 1)]
    /\ nextBlock' = nextBlock + 1
    /\ lastStep' = [kind |-> "push", p |-> FirstStage, start |-> nextBlock, len |-> 1]
    /\ UNCHANGED <<head, p2p_sync, persisted, saved, runState, parLog, seqLog,
                   emitted, pushed, restarts, notified, nonSyncVars>>

(***************************************************************************)
(* Parallel steps.  Each runs as its own task; an outcome says how far it  *)
(* got before an error (done = blocks fully handled, k = saves completed   *)
(* for the block it failed on).                                            *)
(***************************************************************************)
\* zip(block_range, input): as many pairs as the shorter of the two.
ZipLen(e) == IF e.len <= e.items THEN e.len ELSE e.items

ParallelStepEnds(p, i, ok, items) ==
    /\ queue' = [queue EXCEPT ![p][i] =
                    [@ EXCEPT !.st = IF ok THEN "Ready" ELSE "Failed",
                              !.items = items]]
    /\ parLog' = [parLog EXCEPT ![p] = Append(@, queue[p][i].start)]
    /\ lastStep' = Step(IF ok THEN "par_ok" ELSE "par_err", p, queue[p][i])
    /\ UNCHANGED <<p2p_sync, persisted, nextBlock, runState, seqLog, emitted,
                   pushed, restarts, notified, nonSyncVars>>

\* GatewaySyncSteps::parallel_step: per block of the range fetch, verify,
\* then save_header, save_state_diff, save_transactions, save_events.
GatewaySyncSteps_parallel_step_saved(s, e, done, k) ==
    LET full == e.start .. (e.start + done - 1)
        part == IF done < e.len THEN {e.start + done} ELSE {}
    IN  [f \in Facets |->
            CASE f = "headers" -> s[f] \cup full \cup (IF k >= 1 THEN part ELSE {})
              [] f = "state_diffs" -> s[f] \cup full \cup (IF k >= 2 THEN part ELSE {})
              [] f = "transactions" -> s[f] \cup full \cup (IF k >= 3 THEN part ELSE {})
              [] f = "events" -> s[f] \cup full
              [] OTHER -> s[f]]

\* A parallel step that advances the counter of what it just saved.
parallel_step_head_advancing(h, e) ==
    [h EXCEPT !["state_diffs"] = BlockNStatus_set(@, RangeLast(e))]

\* The head counters as the gateway parallel step leaves them.
GatewaySyncSteps_parallel_step_head(h, e) == h

GatewaySyncSteps_parallel_step(i, done, k) ==
    /\ i \in 1 .. Len(queue["blocks"])
    /\ queue["blocks"][i].st = "Running"
    /\ LET e == queue["blocks"][i] IN
        /\ done \in 0 .. e.len
        /\ k \in (IF done = e.len THEN {0} ELSE 0 .. 3)
        /\ saved' = GatewaySyncSteps_parallel_step_saved(saved, e, done, k)
        /\ head' = GatewaySyncSteps_parallel_step_head(head, e)
        /\ ParallelStepEnds("blocks", i, done = e.len, done)

\* StateDiffsSyncSteps::p2p_parallel_step:
\* for (block_n, header) in block_range.zip(input) { next stream item or
\* peer error; verify_and_save_state_diff(block_n, ..)?; }
StateDiffsSyncSteps_p2p_parallel_step_saved(s, e, done) ==
    [s EXCEPT !["state_diffs"] = @ \cup (e.start .. (e.start + done - 1))]

StateDiffsSyncSteps_p2p_parallel_step_head(h, e) == h

StateDiffsSyncSteps_p2p_parallel_step(i, done) ==
    /\ i \in 1 .. Len(queue["state_diffs"])
    /\ queue["state_diffs"][i].st = "Running"
    /\ LET e == queue["state_diffs"][i] IN
        /\ done \in 0 .. ZipLen(e)
        /\ saved' = StateDiffsSyncSteps_p2p_parallel_step_saved(saved, e, done)
        /\ head' = StateDiffsSyncSteps_p2p_parallel_step_head(head, e)
        /\ ParallelStepEnds("state_diffs", i, done = ZipLen(e), done)

\* ClassesSyncSteps::p2p_parallel_step:
\* for (block_n, check_against) in block_range.zip(input.iter()) { next
\* stream item or peer error; verify_and_save_classes(block_n, ..)?; }
ClassesSyncSteps_p2p_parallel_step_saved(s, e, done) ==
    [s EXCEPT !["classes"] = @ \cup (e.start .. (e.start + done - 1))]

ClassesSyncSteps_p2p_parallel_step_head(h, e) == h

ClassesSyncSteps_p2p_parallel_step(i, done) ==
    /\ i \in 1 .. Len(queue["classes"])
    /\ queue["classes"][i].st = "Running"
    /\ LET e == queue["classes"][i] IN
        /\ done \in 0 .. ZipLen(e)
        /\ saved' = ClassesSyncSteps_p2p_parallel_step_saved(saved, e, done)
        /\ head' = ClassesSyncSteps_p2p_parallel_step_head(head, e)
        /\ ParallelStepEnds("classes", i, done = ZipLen(e), e.items)

\* The apply-state parallel step hands the state diffs on unchanged.
ApplyStateSteps_parallel_step(i) ==
    /\ i \in 1 .. Len(queue["apply_state"])
    /\ queue["apply_state"][i].st = "Running"
    /\ UNCHANGED <<head, saved>>
    /\ ParallelStepEnds("apply_state", i, TRUE, queue["apply_state"][i].items)

(***************************************************************************)
(* Sequential steps.                                                       *)
(***************************************************************************)
\* MadaraBackend::save_head_status_to_db: the row takes the serialized head.
save_head_status_to_db(h) == h

\* GatewaySyncSteps::sequential_step, the counters it sets.
GatewaySyncSteps_sequential_step_head(h, e) ==
    IF RangeLast(e) = None THEN h
    ELSE [h EXCEPT
            !["headers"] = BlockNStatus_set(@, RangeLast(e)),
            !["state_diffs"] = BlockNStatus_set(@, RangeLast(e)),
            !["transactions"] = BlockNStatus_set(@, RangeLast(e)),
            !["events"] = BlockNStatus_set(@, RangeLast(e))]

\* GatewaySyncSteps::sequential_step, the row it leaves when the save
\* succeeds (h is the head after the counters were set).
GatewaySyncSteps_sequential_step_row(row, h, e) ==
    IF RangeLast(e) = None THEN row ELSE save_head_status_to_db(h)

\* StateDiffsSyncSteps::p2p_sequential_step
StateDiffsSyncSteps_p2p_sequential_step_head(h, e) ==
    IF RangeLast(e) = None THEN h
    ELSE [h EXCEPT !["state_diffs"] = BlockNStatus_set(@, RangeLast(e))]

StateDiffsSyncSteps_p2p_sequential_step_row(row, h, e) == row

\* ClassesSyncSteps::p2p_sequential_step
ClassesSyncSteps_p2p_sequential_step_head(h, e) ==
    IF RangeLast(e) = None THEN h
    ELSE [h EXCEPT !["classes"] = BlockNStatus_set(@, RangeLast(e))]

ClassesSyncSteps_p2p_sequential_step_row(row, h, e) == row

\* The apply-state sequential step: apply_to_global_trie(range, diffs),
\* then the global_trie counter and the save.
ApplyStateSteps_sequential_step_head(h, e) ==
    IF RangeLast(e) = None THEN h
    ELSE [h EXCEPT !["global_trie"] = BlockNStatus_set(@, RangeLast(e))]

ApplyStateSteps_sequential_step_row(row, h, e) ==
    IF RangeLast(e) = None THEN row ELSE save_head_status_to_db(h)

(***************************************************************************)
(* The select of run().  A branch takes what its pipeline's next() yields: *)
(* the error of a failed parallel step, or the result of the sequential    *)
(* step run on the oldest finished range.                                  *)
(***************************************************************************)
\* The precondition of the blocks branch, without the guard.
BlocksBranchGuard_none == TRUE

\* The precondition of the blocks branch:
\* classes_pipeline.can_schedule_more() && apply_state_pipeline.can_schedule_more()
BlocksBranchGuard ==
    can_schedule_more("classes") /\ can_schedule_more("apply_state")

\* The state-diffs stage feeds the classes stage under the same rule.
StateDiffsBranchGuard == can_schedule_more("classes")

FirstStageGuard == IF p2p_sync THEN StateDiffsBranchGuard ELSE BlocksBranchGuard

\* A blocks branch that forgets the apply-state pipeline.
RunPushDownstream_classes_only(q, e) ==
    [q EXCEPT !["classes"] = pipeline_push(@, e.start, e.len, e.items)]

\* classes_pipeline.push(range.clone(), state_diffs.iter().map(..));
\* apply_state_pipeline.push(range, state_diffs);
RunPushDownstream(q, e) ==
    [q EXCEPT !["classes"] = pipeline_push(@, e.start, e.len, e.items),
              !["apply_state"] = pipeline_push(@, e.start, e.len, e.items)]

\* The classes stage gets the declared classes of the state diffs.
StateDiffsPushDownstream(q, e) ==
    [q EXCEPT !["classes"] = pipeline_push(@, e.start, e.len, e.items)]

\* The starts of the ranges added to the downstream windows between q0 and q1.
PushedAfter(q0, q1) ==
    [p \in Downstream |->
        IF Len(q1[p]) > Len(q0[p])
        THEN Append(pushed[p], q1[p][Len(q1[p])].start)
        ELSE pushed[p]]

\* A loop that logs the error and goes on.
RunPropagate_swallow(ok) == "running"

\* `res?`: how run() goes on after a branch got res.
RunPropagate(ok) == IF ok THEN "running" ELSE "err"

SelectEnabled == runState = "running" /\ ~LoopCondition

\* ChainHead::next_full_block: the block after the latest full one.
next_full_block(h) ==
    IF latest_full_block_n(h) = None THEN 0 ELSE latest_full_block_n(h) + 1

\* A loop that notifies only the last of the new full blocks.
metrics_update_last(log, h0, h1) ==
    IF next_full_block(h0) < next_full_block(h1)
    THEN Append(log, next_full_block(h1) - 1)
    ELSE log

\* for block_n in next_full_block..new_next_full_block {
\*     metrics.update(block_n, &self.backend)?; }
\* h0 is the head read before the select, h1 the head read after the branch.
metrics_update(log, h0, h1) ==
    log \o [i \in 1 .. (next_full_block(h1) - next_full_block(h0)) |->
                next_full_block(h0) + i - 1]

\* What every branch does with the range it took from pipeline p: ok says
\* whether next() yielded Ok, ran whether the sequential step was run.
BranchTakes(p, e, ran, ok, rest, newq) ==
    /\ queue' = newq
    /\ pushed' = PushedAfter(rest, newq)
    /\ seqLog' = IF ran THEN [seqLog EXCEPT ![p] = Append(@, e.start)] ELSE seqLog
    /\ runState' = RunPropagate(ok)
    /\ lastStep' = Step(IF ok THEN "seq_ok" ELSE IF ran THEN "seq_err" ELSE "yield_err",
                        p, e)
    /\ notified' = IF ok THEN metrics_update(notified, head, head') ELSE notified
    /\ UNCHANGED <<p2p_sync, nextBlock, parLog, restarts, nonSyncVars>>

\* Some(res) = self.blocks_pipeline.next(), if <guard> => {
\*     let (range, state_diffs) = res?; push; push }
\* saveOk: save_head_status_to_db succeeded in the sequential step.
RunBlocksBranch(saveOk) ==
    /\ SelectEnabled
    /\ BlocksBranchGuard
    /\ next_yields("blocks")
    /\ LET e == next_entry("blocks")
           ran == e.st = "Ready"
           ok == ran /\ saveOk
           h == GatewaySyncSteps_sequential_step_head(head, e)
           rest == [queue EXCEPT !["blocks"] = RemoveAt(@, next_index("blocks"))]
       IN
        /\ ran \/ saveOk
        /\ head' = IF ran THEN h ELSE head
        /\ persisted' = IF ok
                        THEN GatewaySyncSteps_sequential_step_row(persisted, h, e)
                        ELSE persisted
        /\ emitted' = IF ok THEN Append(emitted, e.start) ELSE emitted
        /\ UNCHANGED saved
        /\ BranchTakes("blocks", e, ran, ok, rest,
                       IF ok THEN RunPushDownstream(rest, e) ELSE rest)

\* The state-diffs stage of p2p sync: its results feed the classes stage.
RunStateDiffsBranch ==
    /\ SelectEnabled
    /\ StateDiffsBranchGuard
    /\ next_yields("state_diffs")
    /\ LET e == next_entry("state_diffs")
           ok == e.st = "Ready"
           h == StateDiffsSyncSteps_p2p_sequential_step_head(head, e)
           rest == [queue EXCEPT !["state_diffs"] =
                        RemoveAt(@, next_index("state_diffs"))]
       IN
        /\ head' = IF ok THEN h ELSE head
        /\ persisted' = IF ok
                        THEN StateDiffsSyncSteps_p2p_sequential_step_row(persisted, h, e)
                        ELSE persisted
        /\ emitted' = IF ok THEN Append(emitted, e.start) ELSE emitted
        /\ UNCHANGED saved
        /\ BranchTakes("state_diffs", e, ok, ok, rest,
                       IF ok THEN StateDiffsPushDownstream(rest, e) ELSE rest)

\* Some(res) = self.classes_pipeline.next() => { res?; }
RunClassesBranch ==
    /\ SelectEnabled
    /\ next_yields("classes")
    /\ LET e == next_entry("classes")
           ok == e.st = "Ready"
           h == ClassesSyncSteps_p2p_sequential_step_head(head, e)
           rest == [queue EXCEPT !["classes"] = RemoveAt(@, next_index("classes"))]
       IN
        /\ head' = IF ok THEN h ELSE head
        /\ persisted' = IF ok
                        THEN ClassesSyncSteps_p2p_sequential_step_row(persisted, h, e)
                        ELSE persisted
        /\ UNCHANGED <<saved, emitted>>
        /\ BranchTakes("classes", e, ok, ok, rest, rest)

\* Some(res) = self.apply_state_pipeline.next() => { res?; }
\* rootOk: apply_to_global_trie found the root of the last header.
RunApplyStateBranch(rootOk) ==
    /\ SelectEnabled
    /\ next_yields("apply_state")
    /\ LET e == next_entry("apply_state")
           ran == e.st = "Ready"
           ok == ran /\ rootOk
           h == ApplyStateSteps_sequential_step_head(head, e)
           rest == [queue EXCEPT !["apply_state"] =
                        RemoveAt(@, next_index("apply_state"))]
       IN
        /\ ran \/ rootOk
        /\ head' = IF ok THEN h ELSE head
        /\ persisted' = IF ok
                        THEN ApplyStateSteps_sequential_step_row(persisted, h, e)
                        ELSE persisted
        /\ saved' = IF ran
                    THEN [saved EXCEPT !["global_trie"] = @ \cup RangeBlocks(e)]
                    ELSE saved
        /\ UNCHANGED emitted
        /\ BranchTakes("apply_state", e, ran, ok, rest, rest)

\* else => break Ok(()): every branch is disabled, its pipeline being
\* empty or its precondition false.
RunElseBranch ==
    /\ SelectEnabled
    /\ queue["apply_state"] = <<>>
    /\ queue["classes"] = <<>>
    /\ (queue[FirstStage] = <<>> \/ ~FirstStageGuard)
    /\ runState' = "ok"
    /\ lastStep' = [kind |-> "return_ok", p |-> "none", start |-> 0, len |-> 0]
    /\ UNCHANGED <<head, p2p_sync, persisted, saved, queue, nextBlock, parLog,
                   seqLog, emitted, pushed, restarts, notified, nonSyncVars>>

(***************************************************************************)
(* The process stops (at any point) and is started again.                  *)
(***************************************************************************)
\* MadaraBackend::load_head_status_from_db
load_head_status_from_db(row) == row

Restart ==
    /\ restarts < MaxRestarts
    /\ restarts' = restarts + 1
    /\ head' = load_head_status_from_db(persisted)
    /\ queue' = [p \in Pipelines |-> <<>>]
    /\ nextBlock' = first_input_block_n(first_stage_starting_block_n(head', p2p_sync))
    /\ runState' = "running"
    /\ parLog' = [p \in Pipelines |-> <<>>]
    /\ seqLog' = [p \in Pipelines |-> <<>>]
    /\ emitted' = <<>>
    /\ pushed' = [p \in Downstream |-> <<>>]
    /\ lastStep' = [kind |-> "restart", p |-> "none", start |-> 0, len |-> 0]
    /\ notified' = <<>>
    /\ UNCHANGED <<p2p_sync, persisted, saved, nonSyncVars>>

Next ==
    \/ RunSchedule
    \/ \E i \in 1 .. BlockParallelization, done \in 0 .. 1, k \in 0 .. 3 :
          GatewaySyncSteps_parallel_step(i, done, k)
    \/ \E i \in 1 .. StateDiffsParallelization, done \in 0 .. 1 :
          StateDiffsSyncSteps_p2p_parallel_step(i, done)
    \/ \E i \in 1 .. ClassesParallelization, done \in 0 .. 1 :
          ClassesSyncSteps_p2p_parallel_step(i, done)
    \/ \E i \in 1 .. ApplyStateParallelization : ApplyStateSteps_parallel_step(i)
    \/ \E saveOk \in BOOLEAN : RunBlocksBranch(saveOk)
    \/ RunStateDiffsBranch
    \/ RunClassesBranch
    \/ \E rootOk \in BOOLEAN : RunApplyStateBranch(rootOk)
    \/ RunElseBranch
    \/ Restart

Spec == Init /\ [][Next]_vars

(***************************************************************************)
(* run() on the gateway pipelines when no step fails: every parallel step  *)
(* handles its whole range, every save and every root check succeeds, the  *)
(* process is not stopped.  A task that can finish does, and select takes  *)
(* a branch that stays ready: the steps are weakly fair.                    *)
(***************************************************************************)
\* The database as an earlier run left it, every block up to `start` fully
\* imported (None: an empty database), and freshly built pipelines.
RunOkInit ==
    /\ \E start \in {None} \cup (0 .. TargetHeight) :
         /\ head = [f \in Facets |->
                      IF f = "l1_head" THEN 0 ELSE BlockNStatus_set(0, start)]
         /\ saved = [f \in Facets |-> IF f = "l1_head" THEN {} ELSE 0 .. start]
    /\ persisted = head
    /\ p2p_sync = FALSE
    /\ queue = [p \in Pipelines |-> <<>>]
    /\ nextBlock = first_input_block_n(first_stage_starting_block_n(head, p2p_sync))
    /\ runState = "running"
    /\ parLog = [p \in Pipelines |-> <<>>]
    /\ seqLog = [p \in Pipelines |-> <<>>]
    /\ emitted = <<>>
    /\ pushed = [p \in Downstream |-> <<>>]
    /\ lastStep = NoStep
    /\ restarts = 0
    /\ notified = <<>>
    /\ CellInit
    /\ ret = NoRet
    /\ ExtInit

RunOkNext ==
    \/ RunSchedule
    \/ \E i \in 1 .. BlockParallelization : GatewaySyncSteps_parallel_step(i, 1, 0)
    \/ \E i \in 1 .. ClassesParallelization : ClassesSyncSteps_p2p_parallel_step(i, 1)
    \/ \E i \in 1 .. ApplyStateParallelization : ApplyStateSteps_parallel_step(i)
    \/ RunBlocksBranch(TRUE)
    \/ RunClassesBranch
    \/ RunApplyStateBranch(TRUE)
    \/ RunElseBranch

SpecRunOk == RunOkInit /\ [][RunOkNext]_vars /\ WF_vars(RunOkNext)

(***************************************************************************)
(* ChainHead::latest_full_block_n as a function of the head: every head    *)
(* the seven counters can form, and the call.                              *)
(***************************************************************************)
nonHeadVars == <<syncVars, cellVars, extVars>>

HeadInit ==
    /\ head \in [Facets -> Stored]
    /\ SyncInit
    /\ ~p2p_sync
    /\ CellInit
    /\ ret = NoRet
    /\ ExtInit

CallLatestFullBlockN ==
    /\ ret' = [op |-> "latest_full_block_n", val |-> latest_full_block_n(head)]
    /\ UNCHANGED <<head, nonHeadVars>>

HeadNext == CallLatestFullBlockN

SpecHead == HeadInit /\ [][HeadNext]_vars

(***************************************************************************)
(* One BlockNStatus under concurrent callers: two writers inside set() and *)
(* a reader calling get().  The store and the load are single atomic       *)
(* (SeqCst) operations, so the interleavings are orders of these steps.    *)
(***************************************************************************)
nonCellVars == <<head, syncVars, ret, extVars>>

\* The Option<u64> arguments the writers pass: None or a block number.
SetArgs == {None} \cup (0 .. (MaxU64 - 1))

\* A writer enters set(block_n).
CallSet(c, block_n) ==
    /\ calls[c].pc = "idle"
    /\ calls' = [calls EXCEPT ![c] = [pc |-> "set", arg |-> block_n]]
    /\ UNCHANGED <<cell, lastStore, obs, nonCellVars>>

\* The writer's store.
DoSet(c) ==
    /\ calls[c].pc = "set"
    /\ cell' = BlockNStatus_set(cell, calls[c].arg)
    /\ lastStore' = calls[c].arg
    /\ calls' = [calls EXCEPT ![c] = NoCall]
    /\ UNCHANGED <<obs, nonCellVars>>

\* The reader's get().
DoGet ==
    /\ obs' = <<obs[2], BlockNStatus_get(cell)>>
    /\ UNCHANGED <<cell, calls, lastStore, nonCellVars>>

CellNext ==
    \/ \E c \in Callers, block_n \in SetArgs : CallSet(c, block_n)
    \/ \E c \in Callers : DoSet(c)
    \/ DoGet

CellSpecInit == Init /\ ~p2p_sync

SpecCell == CellSpecInit /\ [][CellNext]_vars

\* Every Option<u64> a caller can hand to set, u64::MAX included.
SetArgsU64 == {None} \cup (0 .. MaxU64)

\* block_n + 1 in a build with overflow checks: the addition panics for
\* u64::MAX, before the store; the cell is left as it was and the call
\* never returns.
DoSetPanics(c) ==
    /\ calls[c].pc = "set"
    /\ calls[c].arg = MaxU64
    /\ calls' = [calls EXCEPT ![c] = [pc |-> "panicked", arg |-> calls[c].arg]]
    /\ UNCHANGED <<cell, lastStore, obs, nonCellVars>>

\* The cell under every argument of set: for u64::MAX the build decides
\* between the wrapping store of DoSet and the panic.
CellU64Next ==
    \/ \E c \in Callers, block_n \in SetArgsU64 : CallSet(c, block_n)
    \/ \E c \in Callers : DoSet(c)
    \/ \E c \in Callers : DoSetPanics(c)
    \/ DoGet

SpecCellU64 == CellSpecInit /\ [][CellU64Next]_vars

(***************************************************************************)
(* BlockImporter (import.rs): verification of what a source hands over.    *)
(* Felts, bodies and hashes are scaled down: a body is a sequence of       *)
(* indistinguishable items, a hash is a small function of its arguments.   *)
(***************************************************************************)
\* Felt values are 0..MaxFelt; Felt::default() is 0.
MaxFelt == 1
\* The longest body (transactions, events, state diff entries) of a block.
MaxItems == 1
\* The most classes handed to verify_compile_classes in one call.
MaxDeclared == 1

\* StarknetVersion::V0_13_2 among consecutive protocol versions.
V0_13_2 == 2
ProtocolVersions == (V0_13_2 - 1) .. (V0_13_2 + 1)
\* StarknetVersion::max
StarknetVersion_max(a, b) == IF a >= b THEN a ELSE b

Felts == 0 .. MaxFelt
OptFelts == {None} \cup Felts
\* Option::unwrap_or_default
unwrap_or_default(o) == IF o = None THEN 0 ELSE o

\* Vec<TransactionWithReceipt>, Vec<EventWithTransactionHash>, StateDiff
Bodies == {[i \in 1 .. n |-> 1] : n \in 0 .. MaxItems}

\* BlockValidationConfig
Configs ==
    [trust_class_hashes : BOOLEAN, trust_parent_hash : {FALSE}, no_check : BOOLEAN]
BlockValidationConfig_default ==
    [trust_class_hashes |-> FALSE, trust_parent_hash |-> FALSE, no_check |-> FALSE]

\* Result<_, BlockImportError>
Ok(val) == [ok |-> TRUE, err |-> "", got |-> 0, expected |-> 0, val |-> val]
Err(err, got, expected) ==
    [ok |-> FALSE, err |-> err, got |-> got, expected |-> expected, val |-> <<>>]

\* Header::default()
Header_default ==
    [block_number |-> 0, protocol_version |-> V0_13_2 + 1,
     global_state_root |-> 0,
     transaction_count |-> 0, transaction_commitment |-> 0,
     receipt_commitment |-> None,
     event_count |-> 0, event_commitment |-> 0,
     state_diff_length |-> None, state_diff_commitment |-> None]

\* mp_block::commitments and StateDiff::compute_hash: hashes of a body,
\* the first three under a protocol version.
compute_transaction_commitment(transactions, starknet_version) ==
    (Len(transactions) + starknet_version) % (MaxFelt + 1)
compute_receipt_commitment(transactions, starknet_version) ==
    (Len(transactions) + starknet_version + 1) % (MaxFelt + 1)
compute_event_commitment(events, starknet_version) ==
    (Len(events) + 2 * starknet_version + 1) % (MaxFelt + 1)
StateDiff_compute_hash(state_diff) == (Len(state_diff) + 1) % (MaxFelt + 1)

\* BlockImporter::verify_header
verify_header(config, block_n, header) ==
    IF ~config.no_check /\ block_n # header.block_number
    THEN Err("BlockNumber", header.block_number, block_n)
    ELSE Ok(<<>>)

\* A verification that lets a wrong count through for old blocks as well.
verify_transactions_lenient(config, transactions, check_against, allow_pre_v0_13_2) ==
    LET starknet_version ==
            StarknetVersion_max(check_against.protocol_version, V0_13_2)
        is_pre_v0_13_2_special_case ==
            allow_pre_v0_13_2 /\ check_against.protocol_version < V0_13_2
        transaction_commitment ==
            compute_transaction_commitment(transactions, starknet_version)
        receipt_commitment ==
            compute_receipt_commitment(transactions, starknet_version)
    IN  IF ~config.no_check /\ ~is_pre_v0_13_2_special_case
           /\ check_against.transaction_count # Len(transactions)
        THEN Err("TransactionCount", Len(transactions),
                 check_against.transaction_count)
        ELSE IF ~config.no_check /\ ~is_pre_v0_13_2_special_case
                /\ check_against.transaction_commitment # transaction_commitment
        THEN Err("TransactionCommitment", transaction_commitment,
                 check_against.transaction_commitment)
        ELSE IF ~config.no_check /\ ~is_pre_v0_13_2_special_case
                /\ unwrap_or_default(check_against.receipt_commitment)
                       # receipt_commitment
        THEN Err("ReceiptCommitment", receipt_commitment,
                 unwrap_or_default(check_against.receipt_commitment))
        ELSE Ok(<<transaction_commitment, receipt_commitment>>)

\* BlockImporter::verify_transactions
verify_transactions(config, transactions, check_against, allow_pre_v0_13_2) ==
    LET starknet_version ==
            StarknetVersion_max(check_against.protocol_version, V0_13_2)
        is_pre_v0_13_2_special_case ==
            allow_pre_v0_13_2 /\ check_against.protocol_version < V0_13_2
        transaction_commitment ==
            compute_transaction_commitment(transactions, starknet_version)
        receipt_commitment ==
            compute_receipt_commitment(transactions, starknet_version)
    IN  IF ~config.no_check /\ check_against.transaction_count # Len(transactions)
        THEN Err("TransactionCount", Len(transactions),
                 check_against.transaction_count)
        ELSE IF ~config.no_check /\ ~is_pre_v0_13_2_special_case
                /\ check_against.transaction_commitment # transaction_commitment
        THEN Err("TransactionCommitment", transaction_commitment,
                 check_against.transaction_commitment)
        ELSE IF ~config.no_check /\ ~is_pre_v0_13_2_special_case
                /\ unwrap_or_default(check_against.receipt_commitment)
                       # receipt_commitment
        THEN Err("ReceiptCommitment", receipt_commitment,
                 unwrap_or_default(check_against.receipt_commitment))
        ELSE Ok(<<transaction_commitment, receipt_commitment>>)

\* BlockImporter::verify_state_diff
verify_state_diff(config, state_diff, check_against, allow_pre_v0_13_2) ==
    LET is_pre_v0_13_2_special_case ==
            allow_pre_v0_13_2 /\ check_against.protocol_version < V0_13_2
        got == StateDiff_compute_hash(state_diff)
    IN  IF ~config.no_check
           /\ unwrap_or_default(check_against.state_diff_length) # Len(state_diff)
        THEN Err("StateDiffLength", Len(state_diff),
                 unwrap_or_default(check_against.state_diff_length))
        ELSE IF ~config.no_check /\ ~is_pre_v0_13_2_special_case
                /\ unwrap_or_default(check_against.state_diff_commitment) # got
        THEN Err("StateDiffCommitment", got,
                 unwrap_or_default(check_against.state_diff_commitment))
        ELSE Ok(got)

\* BlockImporter::verify_events
verify_events(config, events, check_against, allow_pre_v0_13_2) ==
    LET starknet_version ==
            StarknetVersion_max(check_against.protocol_version, V0_13_2)
        is_pre_v0_13_2_special_case ==
            allow_pre_v0_13_2 /\ check_against.protocol_version < V0_13_2
        got == compute_event_commitment(events, starknet_version)
    IN  IF ~config.no_check /\ check_against.event_count # Len(events)
        THEN Err("EventCount", Len(events), check_against.event_count)
        ELSE IF ~config.no_check /\ ~is_pre_v0_13_2_special_case
                /\ check_against.event_commitment # got
        THEN Err("EventCommitment", got, check_against.event_commitment)
        ELSE Ok(got)

(***************************************************************************)
(* Classes.  A declared class carries, besides what it declares, what      *)
(* hashing and compiling it give (None: the computation fails).            *)
(***************************************************************************)
ClassHashes == {1, 2}
CompiledClassHashes == {1, 2}
ClassTypes == {"Sierra", "Legacy"}

\* ClassInfoWithHash
SierraClasses ==
    [class_hash : ClassHashes, class_info : {"Sierra"},
     compiled_class_hash : CompiledClassHashes,
     compute_class_hash : ClassHashes \cup {None},
     compile_to_casm : CompiledClassHashes \cup {None}]
LegacyClasses ==
    [class_hash : ClassHashes, class_info : {"Legacy"},
     compiled_class_hash : {0},
     compute_class_hash : ClassHashes \cup {None},
     compile_to_casm : {0}]
DeclaredClasses == SierraClasses \cup LegacyClasses

\* DeclaredClassCompiledClass
Markers ==
    {[kind |-> "Legacy", hash |-> 0]}
        \cup {[kind |-> "Sierra", hash |-> h] : h \in CompiledClassHashes}

\* HashMap<Felt, DeclaredClassCompiledClass>
CheckAgainstMaps == UNION {[D -> Markers] : D \in SUBSET ClassHashes}

\* ConvertedClass
ConvertedClass(class, compiled_class_hash) ==
    [class_hash |-> class.class_hash, class_info |-> class.class_info,
     compiled_class_hash |-> compiled_class_hash]

\* A verification that takes the declared compiled class hash on trust
\* once it matches the state diff.
verify_compile_class_uncompiled(config, class, check_against) ==
    IF class.class_hash \notin DOMAIN check_against
    THEN Err("UnexpectedClass", class.class_hash, 0)
    ELSE LET marker == check_against[class.class_hash] IN
        IF class.class_info = "Sierra"
        THEN IF marker.kind # "Sierra"
             THEN Err("ClassType", "Legacy", "Sierra")
             ELSE IF ~config.no_check /\ class.compiled_class_hash # marker.hash
             THEN Err("CompiledClassHash", class.compiled_class_hash, marker.hash)
             ELSE IF ~config.no_check /\ ~config.trust_class_hashes
                     /\ class.compute_class_hash = None
             THEN Err("ComputeClassHash", class.class_hash, 0)
             ELSE IF ~config.no_check /\ ~config.trust_class_hashes
                     /\ class.class_hash # class.compute_class_hash
             THEN Err("ClassHash", class.class_hash, class.compute_class_hash)
             ELSE IF class.compile_to_casm = None
             THEN Err("CompilationClassError", class.class_hash, 0)
             ELSE Ok(ConvertedClass(class, class.compile_to_casm))
        ELSE IF ~config.no_check /\ marker.kind # "Legacy"
             THEN Err("ClassType", "Sierra", "Legacy")
             ELSE IF ~config.trust_class_hashes /\ class.compute_class_hash = None
             THEN Err("ComputeClassHash", class.class_hash, 0)
             ELSE IF ~config.trust_class_hashes /\ ~config.no_check
                     /\ class.class_hash # class.compute_class_hash
             THEN Err("ClassHash", class.class_hash, class.compute_class_hash)
             ELSE Ok(ConvertedClass(class, 0))

\* BlockImporter::verify_compile_class
verify_compile_class(config, class, check_against) ==
    IF class.class_hash \notin DOMAIN check_against
    THEN Err("UnexpectedClass", class.class_hash, 0)
    ELSE LET marker == check_against[class.class_hash] IN
        IF class.class_info = "Sierra"
        THEN IF marker.kind # "Sierra"
             THEN Err("ClassType", "Legacy", "Sierra")
             ELSE IF ~config.no_check /\ class.compiled_class_hash # marker.hash
             THEN Err("CompiledClassHash", class.compiled_class_hash, marker.hash)
             ELSE IF ~config.no_check /\ ~config.trust_class_hashes
                     /\ class.compute_class_hash = None
             THEN Err("ComputeClassHash", class.class_hash, 0)
             ELSE IF ~config.no_check /\ ~config.trust_class_hashes
                     /\ class.class_hash # class.compute_class_hash
             THEN Err("ClassHash", class.class_hash, class.compute_class_hash)
             ELSE IF class.compile_to_casm = None
             THEN Err("CompilationClassError", class.class_hash, 0)
             ELSE IF ~config.no_check
                     /\ class.compile_to_casm # class.compiled_class_hash
             THEN Err("CompiledClassHash", class.compiled_class_hash,
                      class.compile_to_casm)
             ELSE Ok(ConvertedClass(class, class.compile_to_casm))
        ELSE IF ~config.no_check /\ marker.kind # "Legacy"
             THEN Err("ClassType", "Sierra", "Legacy")
             ELSE IF ~config.trust_class_hashes /\ class.compute_class_hash = None
             THEN Err("ComputeClassHash", class.class_hash, 0)
             ELSE IF ~config.trust_class_hashes /\ ~config.no_check
                     /\ class.class_hash # class.compute_class_hash
             THEN Err("ClassHash", class.class_hash, class.compute_class_hash)
             ELSE Ok(ConvertedClass(class, 0))

\* BlockImporter::verify_compile_classes: the results the call may give.
\* The classes are verified in parallel and collected into one Result, so
\* with several failing classes the error is that of any one of them.
verify_compile_classes(config, declared_classes, check_against) ==
    IF Cardinality(DOMAIN check_against) # Len(declared_classes)
    THEN {Err("ClassCount", Len(declared_classes),
              Cardinality(DOMAIN check_against))}
    ELSE LET classes ==
                 [i \in 1 .. Len(declared_classes) |->
                     verify_compile_class(config, declared_classes[i],
                                          check_against)]
             errors == {classes[i] : i \in {j \in 1 .. Len(declared_classes) :
                                                ~classes[j].ok}}
         IN  IF errors # {} THEN errors
             ELSE {Ok([i \in 1 .. Len(declared_classes) |-> classes[i].val])}

(***************************************************************************)
(* Global trie.                                                            *)
(***************************************************************************)
RECURSIVE db_apply_to_global_trie(_, _)
\* MadaraBackend::apply_to_global_trie: the root after the state diffs are
\* applied one after the other; the root of the empty trie is 0.
db_apply_to_global_trie(root, state_diffs) ==
    IF state_diffs = <<>> THEN root
    ELSE db_apply_to_global_trie((root + Len(Head(state_diffs))) % (MaxFelt + 1),
                                 Tail(state_diffs))

\* An importer that forgets the sanity check of the state root.
apply_to_global_trie_unchecked(config, root, header_root, block_range, state_diffs) ==
    IF block_range.len = 0 THEN [out |-> Ok(<<>>), root |-> root]
    ELSE LET got == db_apply_to_global_trie(root, state_diffs) IN
        [out |-> IF header_root = None
                 THEN Err("Internal", 0, 0)
                 ELSE Ok(<<>>),
         root |-> got]

\* An importer that puts the trie back where it was when the call fails.
apply_to_global_trie_rolled_back(config, root, header_root, block_range, state_diffs) ==
    IF block_range.len = 0 THEN [out |-> Ok(<<>>), root |-> root]
    ELSE LET got == db_apply_to_global_trie(root, state_diffs)
             ok == header_root # None /\ (config.no_check \/ header_root = got)
         IN  [out |-> IF header_root = None THEN Err("Internal", 0, 0)
                      ELSE IF ~ok THEN Err("GlobalStateRoot", got, header_root)
                      ELSE Ok(<<>>),
              root |-> IF ok THEN got ELSE root]

\* BlockImporter::apply_to_global_trie: what it returns and the trie root
\* it leaves.  header_root is the global_state_root of the stored header of
\* block_range.last(), None when no such header is stored.
apply_to_global_trie(config, root, header_root, block_range, state_diffs) ==
    IF block_range.len = 0 THEN [out |-> Ok(<<>>), root |-> root]
    ELSE LET got == db_apply_to_global_trie(root, state_diffs) IN
        [out |-> IF header_root = None
                 THEN Err("Internal", 0, 0)
                 ELSE IF ~config.no_check /\ header_root # got
                 THEN Err("GlobalStateRoot", got, header_root)
                 ELSE Ok(<<>>),
         root |-> got]

(***************************************************************************)
(* The gateway blocks parallel step, for one block of its range.           *)
(***************************************************************************)
\* What the feeder gateway answers for a block number.
ProviderBlocks ==
    [block_number : 0 .. 1, starknet_version : ProtocolVersions,
     receipts : {"one per transaction", "fewer"},
     transactions : Bodies, events : Bodies, state_diff : Bodies,
     transaction_commitment : Felts, event_commitment : Felts,
     state_diff_commitment : OptFelts, receipt_commitment : OptFelts]

\* impl TryFrom<ProviderStateUpdateWithBlock> for GatewayBlock
GatewayBlock_try_from(value) ==
    IF value.receipts # "one per transaction"
    THEN Err("TransactionCountNotEqualToReceiptCount", 0, 0)
    ELSE Ok([header |->
                [Header_default EXCEPT
                    !.protocol_version = value.starknet_version,
                    !.block_number = value.block_number,
                    !.transaction_count = Len(value.transactions),
                    !.transaction_commitment = value.transaction_commitment,
                    !.event_count = Len(value.events),
                    !.event_commitment = value.event_commitment,
                    !.state_diff_length = Len(value.state_diff),
                    !.state_diff_commitment = value.state_diff_commitment,
                    !.receipt_commitment = value.receipt_commitment],
             state_diff |-> value.state_diff,
             transactions |-> value.transactions,
             events |-> value.events])

\* The block store: per kind of data what is stored for the block, as a
\* sequence of at most one element.
EmptyStore ==
    [header |-> <<>>, state_diff |-> <<>>, transactions |-> <<>>, events |-> <<>>]

\* save_header, save_state_diff, save_transactions, save_events in this
\* order; the first k of them succeed.
GatewaySyncSteps_save_block(store, header, gateway_block, k) ==
    [header |-> IF k >= 1 THEN <<header>> ELSE store.header,
     state_diff |-> IF k >= 2 THEN <<gateway_block.state_diff>>
                    ELSE store.state_diff,
     transactions |-> IF k >= 3 THEN <<gateway_block.transactions>>
                      ELSE store.transactions,
     events |-> IF k >= 4 THEN <<gateway_block.events>> ELSE store.events]

\* A step that stores the header as the gateway sent it.
GatewaySyncSteps_filled_header_asis(header, sd, tx, receipt, ev) ==
    header

\* signed_header.header = Header { state_diff_commitment: Some(..),
\*     transaction_commitment, event_commitment,
\*     receipt_commitment: Some(..), ..signed_header.header }
GatewaySyncSteps_filled_header(header, sd, tx, receipt, ev) ==
    [header EXCEPT !.state_diff_commitment = sd,
                   !.transaction_commitment = tx,
                   !.event_commitment = ev,
                   !.receipt_commitment = receipt]

\* GatewaySyncSteps::parallel_step, the body of its loop for block_n:
\* parse the answer, verify state diff, transactions, events and header
\* with allow_pre_v0_13_2 = true, then save.
GatewaySyncSteps_import_block(config, store, block_n, value, k) ==
    LET parsed == GatewayBlock_try_from(value) IN
    IF ~parsed.ok THEN [out |-> parsed, store |-> store]
    ELSE
    LET gateway_block == parsed.val
        sd == verify_state_diff(config, gateway_block.state_diff,
                                gateway_block.header, TRUE)
        tx == verify_transactions(config, gateway_block.transactions,
                                  gateway_block.header, TRUE)
        ev == verify_events(config, gateway_block.events,
                            gateway_block.header, TRUE)
    IN  IF ~sd.ok THEN [out |-> sd, store |-> store]
        ELSE IF ~tx.ok THEN [out |-> tx, store |-> store]
        ELSE IF ~ev.ok THEN [out |-> ev, store |-> store]
        ELSE
        LET header == GatewaySyncSteps_filled_header(
                          gateway_block.header, sd.val, tx.val[1], tx.val[2], ev.val)
            hd == verify_header(config, block_n, header)
        IN  IF ~hd.ok THEN [out |-> hd, store |-> store]
            ELSE [out |-> IF k = 4 THEN Ok(gateway_block.state_diff)
                          ELSE Err("InternalDb", 0, 0),
                  store |-> GatewaySyncSteps_save_block(store, header,
                                                        gateway_block, k)]

RECURSIVE GatewaySyncSteps_parallel_step_skipping(_, _, _, _, _)
\* A step that passes over a block that fails and goes on to the next.
GatewaySyncSteps_parallel_step_skipping(config, stores, block_n, values, ks) ==
    IF values = <<>> THEN [out |-> Ok(<<>>), stores |-> stores]
    ELSE LET r == GatewaySyncSteps_import_block(config, stores[block_n], block_n, Head(values), Head(ks))
             rest == GatewaySyncSteps_parallel_step_skipping(config,
                         [stores EXCEPT ![block_n] = r.store], block_n + 1,
                         Tail(values), Tail(ks))
         IN  [out |-> IF r.out.ok THEN rest.out ELSE r.out, stores |-> rest.stores]

RECURSIVE GatewaySyncSteps_parallel_step_blocks(_, _, _, _, _)
\* GatewaySyncSteps::parallel_step: for block_n in block_range { .. }, the
\* range starting at block_n with one gateway answer per block; the first
\* error ends the step, Ok(out) carries the state diffs in order.
GatewaySyncSteps_parallel_step_blocks(config, stores, block_n, values, ks) ==
    IF values = <<>> THEN [out |-> Ok(<<>>), stores |-> stores]
    ELSE LET r == GatewaySyncSteps_import_block(config, stores[block_n], block_n, Head(values), Head(ks))
             stored == [stores EXCEPT ![block_n] = r.store]
         IN  IF ~r.out.ok THEN [out |-> r.out, stores |-> stored]
             ELSE LET rest == GatewaySyncSteps_parallel_step_blocks(config,
                                  stored, block_n + 1, Tail(values), Tail(ks))
                  IN  [out |-> IF rest.out.ok
                               THEN Ok(<<r.out.val>> \o rest.out.val)
                               ELSE rest.out,
                       stores |-> rest.stores]

(***************************************************************************)
(* The importer called on every input of the bounded sets: one call per    *)
(* behaviour, on an importer built with any BlockValidationConfig.         *)
(***************************************************************************)
nonImpVars == <<head, syncVars, cellVars, ret, stp, bonsai, scan, rpc, job>>

SeqsUpTo(S, n) == UNION {[1 .. m -> S] : m \in 0 .. n}

\* The state the other parts of the model start in, gateway mode.
BaseInit ==
    /\ head = ChainHead_default
    /\ SyncInit
    /\ ~p2p_sync
    /\ CellInit
    /\ ret = NoRet

\* BlockImporter::new(db, config) on an empty block store.
ImportInit ==
    /\ BaseInit
    /\ imp \in {[config |-> c, store |-> EmptyStore,
                 stores |-> [n \in 0 .. 1 |-> EmptyStore], root |-> 0,
                 op |-> "none", in |-> <<>>, out |-> Ok(<<>>)] : c \in Configs}
    /\ stp = "idle"
    /\ bonsai = "idle"
    /\ scan = "idle"
    /\ rpc = "idle"
    /\ job = "idle"

ImporterCalled(op, in, out) ==
    /\ imp.op = "none"
    /\ imp' = [imp EXCEPT !.op = op, !.in = in, !.out = out]
    /\ UNCHANGED nonImpVars

CallVerifyHeader ==
    /\ imp.op = "none"
    /\ \E block_n \in 0 .. 1, block_number \in 0 .. 1 :
        LET header == [Header_default EXCEPT !.block_number = block_number] IN
        ImporterCalled("verify_header",
                       [block_n |-> block_n, header |-> header],
                       verify_header(imp.config, block_n, header))

CallVerifyTransactions ==
    /\ imp.op = "none"
    /\ \E transactions \in Bodies, version \in ProtocolVersions,
       count \in 0 .. MaxItems, tc \in Felts, rc \in OptFelts,
       allow_pre_v0_13_2 \in BOOLEAN :
        LET check_against ==
                [Header_default EXCEPT !.protocol_version = version,
                                       !.transaction_count = count,
                                       !.transaction_commitment = tc,
                                       !.receipt_commitment = rc]
        IN  ImporterCalled("verify_transactions",
                [body |-> transactions, check_against |-> check_against,
                 allow_pre_v0_13_2 |-> allow_pre_v0_13_2],
                verify_transactions(imp.config, transactions, check_against,
                                    allow_pre_v0_13_2))

CallVerifyEvents ==
    /\ imp.op = "none"
    /\ \E events \in Bodies, version \in ProtocolVersions,
       count \in 0 .. MaxItems, ec \in Felts, allow_pre_v0_13_2 \in BOOLEAN :
        LET check_against ==
                [Header_default EXCEPT !.protocol_version = version,
                                       !.event_count = count,
                                       !.event_commitment = ec]
        IN  ImporterCalled("verify_events",
                [body |-> events, check_against |-> check_against,
                 allow_pre_v0_13_2 |-> allow_pre_v0_13_2],
                verify_events(imp.config, events, check_against,
                              allow_pre_v0_13_2))

CallVerifyStateDiff ==
    /\ imp.op = "none"
    /\ \E state_diff \in Bodies, version \in ProtocolVersions,
       length \in {None} \cup (0 .. MaxItems), sdc \in OptFelts,
       allow_pre_v0_13_2 \in BOOLEAN :
        LET check_against ==
                [Header_default EXCEPT !.protocol_version = version,
                                       !.state_diff_length = length,
                                       !.state_diff_commitment = sdc]
        IN  ImporterCalled("verify_state_diff",
                [body |-> state_diff, check_against |-> check_against,
                 allow_pre_v0_13_2 |-> allow_pre_v0_13_2],
                verify_state_diff(imp.config, state_diff, check_against,
                                  allow_pre_v0_13_2))

CallVerifyCompileClasses ==
    /\ imp.op = "none"
    /\ \E declared_classes \in SeqsUpTo(DeclaredClasses, MaxDeclared),
       check_against \in CheckAgainstMaps :
        \E out \in verify_compile_classes(imp.config, declared_classes,
                                          check_against) :
            ImporterCalled("verify_compile_classes",
                [declared_classes |-> declared_classes,
                 check_against |-> check_against],
                out)

\* apply_to_global_trie on a trie whose root is `root`, with the header of
\* the last block of the range stored (or not).
CallApplyToGlobalTrie ==
    /\ imp.op = "none"
    /\ \E root \in Felts, header_root \in OptFelts, start \in 0 .. 1,
       len \in 0 .. MaxItems, state_diffs \in SeqsUpTo(Bodies, MaxItems) :
        LET block_range == [start |-> start, len |-> len]
            r == apply_to_global_trie(imp.config, root, header_root,
                                      block_range, state_diffs)
        IN  /\ imp.op = "none"
            /\ imp' = [imp EXCEPT
                        !.op = "apply_to_global_trie",
                        !.in = [root |-> root, header_root |-> header_root,
                                block_range |-> block_range,
                                state_diffs |-> state_diffs],
                        !.out = r.out, !.root = r.root]
            /\ UNCHANGED nonImpVars

\* The gateway blocks parallel step handles block_n with the gateway's
\* answer `value`; k of its four saves succeed.
CallGatewayImport ==
    /\ imp.op = "none"
    /\ \E block_n \in 0 .. 1, value \in ProviderBlocks, k \in 0 .. 4 :
        LET r == GatewaySyncSteps_import_block(imp.config, imp.store, block_n,
                                               value, k)
        IN  /\ imp.op = "none"
            /\ imp' = [imp EXCEPT !.op = "gateway_import",
                                  !.in = [block_n |-> block_n, value |-> value],
                                  !.out = r.out, !.store = r.store]
            /\ UNCHANGED nonImpVars

\* A block of an old protocol version with nothing in it, as the gateway
\* answers it for block_n.
EmptyBlock(block_n) ==
    [block_number |-> block_n, starknet_version |-> V0_13_2 - 1,
     receipts |-> "one per transaction",
     transactions |-> <<>>, events |-> <<>>, state_diff |-> <<>>,
     transaction_commitment |-> 0, event_commitment |-> 0,
     state_diff_commitment |-> None, receipt_commitment |-> None]

\* The gateway blocks parallel step on the range 0 .. 2: any answer for
\* one of the blocks (first says which), with k of its four saves
\* succeeding, and the empty block, saved in full, for the other.
CallGatewayParallelStep ==
    /\ imp.op = "none"
    /\ \E value \in ProviderBlocks, k \in 0 .. 4, first \in BOOLEAN :
        LET values == IF first THEN <<value, EmptyBlock(1)>> ELSE <<EmptyBlock(0), value>>
            ks == IF first THEN <<k, 4>> ELSE <<4, k>>
            r == GatewaySyncSteps_parallel_step_blocks(imp.config, imp.stores, 0, values, ks)
        IN  /\ imp' = [imp EXCEPT !.op = "gateway_parallel_step",
                                  !.in = [start |-> 0, values |-> values],
                                  !.out = r.out, !.stores = r.stores]
            /\ UNCHANGED nonImpVars

ImportNext ==
    \/ CallVerifyHeader
    \/ CallVerifyTransactions
    \/ CallVerifyEvents
    \/ CallVerifyStateDiff
    \/ CallVerifyCompileClasses
    \/ CallApplyToGlobalTrie
    \/ CallGatewayImport

SpecImport == ImportInit /\ [][ImportNext]_vars

\* The gateway blocks parallel step on its own, on an importer built with
\* or without no_check and an empty block store.
GatewayStepInit ==
    /\ ImportInit
    /\ ~imp.config.trust_class_hashes

GatewayStepNext == CallGatewayParallelStep

SpecGatewayStep == GatewayStepInit /\ [][GatewayStepNext]_vars

(***************************************************************************)
(* One p2p pipeline (classes or state diffs) handed one range and one      *)
(* input vector: its parallel step against a peer stream, then, if that    *)
(* returned Ok, its sequential step.                                       *)
(***************************************************************************)
\* The longest range, input vector and peer stream.
MaxRangeLen == 2

P2pPipelines == {"classes", "state_diffs"}
nonStepVars == <<p2p_sync, persisted, queue, nextBlock, runState, parLog,
                 seqLog, emitted, pushed, lastStep, restarts, notified,
                 cellVars, ret, imp, bonsai, scan, rpc, job>>

\* push(block_range, input) on a pipeline whose counter stands just below
\* the range, everything below the range stored; the peer's stream will
\* yield `stream` items and then end.
StepsInit ==
    /\ \E pl \in P2pPipelines, start \in 0 .. 1, len \in 0 .. MaxRangeLen,
          items \in 0 .. MaxRangeLen, stream \in 0 .. MaxRangeLen :
        /\ stp = [pipeline |-> pl,
                  e |-> [start |-> start, len |-> len, items |-> items,
                         st |-> "Running"],
                  stream |-> stream, fail |-> 0, par |-> "none", seq |-> "none"]
        /\ head = [ChainHead_default EXCEPT
                      ![pl] = BlockNStatus_set(@, IF start = 0 THEN None
                                                  ELSE start - 1)]
        /\ saved = [f \in Facets |-> IF f = pl THEN 0 .. (start - 1) ELSE {}]
    /\ persisted = head
    /\ p2p_sync = TRUE
    /\ queue = [p \in Pipelines |-> <<>>]
    /\ nextBlock = 0
    /\ runState = "running"
    /\ parLog = [p \in Pipelines |-> <<>>]
    /\ seqLog = [p \in Pipelines |-> <<>>]
    /\ emitted = <<>>
    /\ pushed = [p \in Downstream |-> <<>>]
    /\ lastStep = NoStep
    /\ restarts = 0
    /\ notified = <<>>
    /\ CellInit
    /\ ret = NoRet
    /\ imp = "idle"
    /\ bonsai = "idle"
    /\ scan = "idle"
    /\ rpc = "idle"
    /\ job = "idle"

\* How many turns of `for (block_n, _) in block_range.zip(input)` complete:
\* turn i (from 0) first takes the stream's next item, a peer error
\* ("Expected to receive item") when the stream has ended, then verifies
\* and saves, which fails in turn `fail`.
P2pTurnsDone(e, stream, fail) ==
    LET m == IF stream <= fail THEN stream ELSE fail
    IN  IF ZipLen(e) <= m THEN ZipLen(e) ELSE m

P2pParallelResult(e, stream, fail) ==
    IF P2pTurnsDone(e, stream, fail) = ZipLen(e) THEN "ok"
    ELSE IF stream <= fail THEN "peer_error"
    ELSE "import_error"

\* ClassesSyncSteps::p2p_parallel_step / StateDiffsSyncSteps::p2p_parallel_step
P2pParallelStep(fail) ==
    /\ stp.par = "none"
    /\ LET e == stp.e
           done == P2pTurnsDone(e, stp.stream, fail)
       IN  /\ saved' =
                IF stp.pipeline = "classes"
                THEN ClassesSyncSteps_p2p_parallel_step_saved(saved, e, done)
                ELSE StateDiffsSyncSteps_p2p_parallel_step_saved(saved, e, done)
           /\ head' =
                IF stp.pipeline = "classes"
                THEN ClassesSyncSteps_p2p_parallel_step_head(head, e)
                ELSE StateDiffsSyncSteps_p2p_parallel_step_head(head, e)
           /\ stp' = [stp EXCEPT !.fail = fail,
                                 !.par = P2pParallelResult(e, stp.stream, fail)]
    /\ UNCHANGED nonStepVars

\* The sequential step, which the controller runs on the Ok result of the
\* parallel step.
P2pSequentialStep ==
    /\ stp.par = "ok"
    /\ stp.seq = "none"
    /\ head' =
         IF stp.pipeline = "classes"
         THEN ClassesSyncSteps_p2p_sequential_step_head(head, stp.e)
         ELSE StateDiffsSyncSteps_p2p_sequential_step_head(head, stp.e)
    /\ stp' = [stp EXCEPT !.seq = "done"]
    /\ UNCHANGED <<saved, nonStepVars>>

StepsNext ==
    \/ \E fail \in 0 .. MaxRangeLen : P2pParallelStep(fail)
    \/ P2pSequentialStep

SpecSteps == StepsInit /\ [][StepsNext]_vars

(***************************************************************************)
(* BonsaiDb and BonsaiTransaction (bonsai_db.rs): the live columns, the    *)
(* snapshot registry and transactions opened on snapshots.  A key stands   *)
(* for a DatabaseKey (column and bytes), a value for its bytes.            *)
(***************************************************************************)
\* Mutating calls made in one behaviour.
MaxOps == 5
\* Transactions open at the same time.
MaxTxs == 2
\* BasicId values are 0..MaxId.
MaxId == 1

BKeys == {1, 2}
BValues == {1, 2}
\* Option<ByteVec>
OptBValues == {None} \cup BValues
\* No entry in BonsaiTransaction::changed.
Untouched == 0 - 2
BasicIds == 0 .. MaxId

nonBonsaiVars == <<head, syncVars, cellVars, ret, imp, stp, scan, rpc, job>>

\* BonsaiDb::new on empty columns and an empty snapshot registry.
BonsaiInit ==
    /\ BaseInit
    /\ imp = "idle"
    /\ stp = "idle"
    /\ scan = "idle"
    /\ rpc = "idle"
    /\ job = "idle"
    /\ bonsai = [db |-> [k \in BKeys |-> None],
                 snapshots |-> [id \in BasicIds |-> <<>>],
                 txs |-> <<>>,
                 ops |-> 0,
                 res |-> [op |-> "none", tx |-> 0, key |-> 0, val |-> None]]

Res(op, tx, key, val) == [op |-> op, tx |-> tx, key |-> key, val |-> val]

\* BonsaiDb::get
BonsaiDb_get(db, key) == db[key]
\* BonsaiDb::insert with no batch: put_cf_opt
BonsaiDb_insert(db, key, value) == [db EXCEPT ![key] = value]
\* BonsaiDb::remove with no batch: delete_cf_opt
BonsaiDb_remove(db, key) == [db EXCEPT ![key] = None]

\* Snapshots::create_new(id): the registry maps id to a snapshot of the
\* live columns.
Snapshots_create_new(snapshots, db, id) == [snapshots EXCEPT ![id] = <<db>>]

\* Snapshots::get_closest(id): the id of the nearest snapshot at or below
\* id, None when there is none.
Snapshots_get_closest(snapshots, id) ==
    LET below == {j \in BasicIds : j <= id /\ snapshots[j] # <<>>}
    IN  IF below = {} THEN None
        ELSE CHOOSE j \in below : \A i \in below : i <= j

\* BonsaiDb::transaction(id): BonsaiTransaction { snapshot, changed:
\* Default::default(), db, column_mapping }
BonsaiDb_transaction(snapshots, id) ==
    [snapshot |-> snapshots[Snapshots_get_closest(snapshots, id)][1],
     changed |-> [k \in BKeys |-> Untouched]]

\* BonsaiTransaction::get: the overlay's entry if there is one, else
\* self.db.get_cf
BonsaiTransaction_get(tx, db, key) ==
    IF tx.changed[key] # Untouched THEN tx.changed[key] ELSE db[key]

\* BonsaiTransaction::contains: self.snapshot.get_cf(..).is_some()
BonsaiTransaction_contains(tx, key) == tx.snapshot[key] # None

\* BonsaiTransaction::insert: self.changed.insert(key, Some(value))
BonsaiTransaction_insert(tx, key, value) ==
    [tx EXCEPT !.changed = [@ EXCEPT ![key] = value]]
\* BonsaiTransaction::remove: self.changed.insert(key, None)
BonsaiTransaction_remove(tx, key) ==
    [tx EXCEPT !.changed = [@ EXCEPT ![key] = None]]

\* A transaction whose insert writes through to the database.
BonsaiTransaction_insert_db_through(db, key, value) == [db EXCEPT ![key] = value]
\* The live columns as BonsaiTransaction::insert leaves them.
BonsaiTransaction_insert_db(db, key, value) == db

MayMutate == bonsai.ops < MaxOps

DbInsert(key, value) ==
    /\ MayMutate
    /\ bonsai' = [bonsai EXCEPT
                    !.db = BonsaiDb_insert(@, key, value),
                    !.ops = @ + 1,
                    !.res = Res("db_insert", 0, key, BonsaiDb_get(bonsai.db, key))]
    /\ UNCHANGED nonBonsaiVars

DbRemove(key) ==
    /\ MayMutate
    /\ bonsai' = [bonsai EXCEPT
                    !.db = BonsaiDb_remove(@, key),
                    !.ops = @ + 1,
                    !.res = Res("db_remove", 0, key, BonsaiDb_get(bonsai.db, key))]
    /\ UNCHANGED nonBonsaiVars

\* BonsaiDb::snapshot(id)
Snapshot(id) ==
    /\ MayMutate
    /\ bonsai' = [bonsai EXCEPT
                    !.snapshots = Snapshots_create_new(@, bonsai.db, id),
                    !.ops = @ + 1,
                    !.res = Res("snapshot", 0, 0, id)]
    /\ UNCHANGED nonBonsaiVars

\* BonsaiDb::transaction(id), when it returns Some.
Transaction(id) ==
    /\ MayMutate
    /\ Len(bonsai.txs) < MaxTxs
    /\ Snapshots_get_closest(bonsai.snapshots, id) # None
    /\ bonsai' = [bonsai EXCEPT
                    !.txs = Append(@, BonsaiDb_transaction(bonsai.snapshots, id)),
                    !.ops = @ + 1,
                    !.res = Res("transaction", Len(bonsai.txs) + 1, 0,
                                Snapshots_get_closest(bonsai.snapshots, id))]
    /\ UNCHANGED nonBonsaiVars

TxInsert(t, key, value) ==
    /\ MayMutate
    /\ t \in 1 .. Len(bonsai.txs)
    /\ bonsai' = [bonsai EXCEPT
                    !.txs[t] = BonsaiTransaction_insert(@, key, value),
                    !.db = BonsaiTransaction_insert_db(@, key, value),
                    !.ops = @ + 1,
                    !.res = Res("tx_insert", t, key, None)]
    /\ UNCHANGED nonBonsaiVars

TxRemove(t, key) ==
    /\ MayMutate
    /\ t \in 1 .. Len(bonsai.txs)
    /\ bonsai' = [bonsai EXCEPT
                    !.txs[t] = BonsaiTransaction_remove(@, key),
                    !.ops = @ + 1,
                    !.res = Res("tx_remove", t, key, None)]
    /\ UNCHANGED nonBonsaiVars

\* BonsaiTransaction::write_batch: Ok(()) and nothing else.
TxWriteBatch(t) ==
    /\ MayMutate
    /\ t \in 1 .. Len(bonsai.txs)
    /\ bonsai' = [bonsai EXCEPT !.ops = @ + 1,
                                !.res = Res("tx_write_batch", t, 0, None)]
    /\ UNCHANGED nonBonsaiVars

TxGet(t, key) ==
    /\ t \in 1 .. Len(bonsai.txs)
    /\ bonsai' = [bonsai EXCEPT
                    !.res = Res("tx_get", t, key,
                                BonsaiTransaction_get(bonsai.txs[t], bonsai.db, key))]
    /\ UNCHANGED nonBonsaiVars

TxContains(t, key) ==
    /\ t \in 1 .. Len(bonsai.txs)
    /\ bonsai' = [bonsai EXCEPT
                    !.res = Res("tx_contains", t, key,
                                IF BonsaiTransaction_contains(bonsai.txs[t], key)
                                THEN 1 ELSE 0)]
    /\ UNCHANGED nonBonsaiVars

BonsaiNext ==
    \/ \E key \in BKeys, value \in BValues : DbInsert(key, value)
    \/ \E key \in BKeys : DbRemove(key)
    \/ \E id \in BasicIds : Snapshot(id)
    \/ \E id \in BasicIds : Transaction(id)
    \/ \E t \in 1 .. MaxTxs, key \in BKeys, value \in BValues : TxInsert(t, key, value)
    \/ \E t \in 1 .. MaxTxs, key \in BKeys : TxRemove(t, key)
    \/ \E t \in 1 .. MaxTxs : TxWriteBatch(t)
    \/ \E t \in 1 .. MaxTxs, key \in BKeys : TxGet(t, key)
    \/ \E t \in 1 .. MaxTxs, key \in BKeys : TxContains(t, key)

SpecBonsai == BonsaiInit /\ [][BonsaiNext]_vars

(***************************************************************************)
(* BonsaiDb::get_by_prefix on a column of byte-string keys.                *)
(***************************************************************************)
\* The longest key, in bytes; a byte is 0 or 1.
MaxKeyLen == 2
\* The most entries in the scanned column.
MaxEntries == 2

Bytes == {0, 1}
ByteStrings == UNION {[1 .. n -> Bytes] : n \in 0 .. MaxKeyLen}
\* DatabaseKeyMapping::map: the column of a DatabaseKey variant.
Columns == {"trie", "flat"}
\* What a column stores under a key: here the column's own mark, so that
\* the same key has different values in different columns.
ValueOf(column, key) == IF column = "trie" THEN 1 ELSE 2

\* key.starts_with(prefix)
starts_with(key, prefix) ==
    /\ Len(prefix) <= Len(key)
    /\ SubSeq(key, 1, Len(prefix)) = prefix

\* The order of byte strings in a RocksDB column (bytewise comparator).
BytewiseLeq(a, b) ==
    LET n == IF Len(a) <= Len(b) THEN Len(a) ELSE Len(b)
        diff == {i \in 1 .. n : a[i] # b[i]}
    IN  IF diff = {} THEN Len(a) <= Len(b)
        ELSE LET i == CHOOSE j \in diff : \A k \in diff : j <= k
             IN  a[i] < b[i]

RECURSIVE InKeyOrder(_)
\* The keys of a set in ascending order.
InKeyOrder(keys) ==
    IF keys = {} THEN <<>>
    ELSE LET first == CHOOSE k \in keys : \A o \in keys : BytewiseLeq(k, o)
         IN  <<first>> \o InKeyOrder(keys \ {first})

\* iterator_cf(handle, IteratorMode::From(prefix, Direction::Forward)):
\* the keys of the column at or after prefix, ascending.
iterator_cf(keys, prefix) ==
    InKeyOrder({k \in keys : BytewiseLeq(prefix, k)})

RECURSIVE map_while(_, _, _, _, _)
\* iter.map_while(|kv| ..).collect(), from the i-th item on: an item that is
\* Ok and whose key starts with the prefix is taken, anything else ends the
\* scan; the item at position err is an Err of the iterator (0: none is).
map_while(column, items, prefix, err, i) ==
    IF i > Len(items) THEN <<>>
    ELSE IF i # err /\ starts_with(items[i], prefix)
    THEN <<[key |-> items[i], value |-> ValueOf(column, items[i])]>>
            \o map_while(column, items, prefix, err, i + 1)
    ELSE <<>>

\* BonsaiDb::get_by_prefix
get_by_prefix(column, keys, prefix, err) ==
    map_while(column, iterator_cf(keys, prefix), prefix, err, 1)

RECURSIVE remove_by_prefix_batch(_, _, _, _)
\* The loop of BonsaiDb::remove_by_prefix, from the i-th item on: the keys
\* it puts in the batch.  An item that is Ok and whose key starts with the
\* prefix is deleted in the batch; a key that does not, or an Err of the
\* iterator (the item at position err), breaks out of the loop.
remove_by_prefix_batch(items, prefix, err, i) ==
    IF i > Len(items) THEN {}
    ELSE IF i # err
    THEN IF starts_with(items[i], prefix)
         THEN {items[i]} \cup remove_by_prefix_batch(items, prefix, err, i + 1)
         ELSE {}
    ELSE {}

\* BonsaiDb::write_batch: db.write_opt(batch) applies the whole batch to the
\* column of its handle at once, or fails (werr) and applies nothing.
write_batch(db, column, batch, werr) ==
    IF werr
    THEN [res |-> "Err", db |-> db, writes |-> <<>>]
    ELSE [res |-> "Ok",
          db |-> [db EXCEPT ![column] = db[column] \ batch],
          writes |-> <<batch>>]

\* BonsaiDb::remove_by_prefix
remove_by_prefix(db, column, prefix, err, werr) ==
    LET items == iterator_cf(db[column], prefix)
        batch == remove_by_prefix_batch(items, prefix, err, 1)
    IN  write_batch(db, column, batch, werr)

nonScanVars == <<head, syncVars, cellVars, ret, imp, stp, bonsai, rpc, job>>

\* The other column of the two.
OtherColumn(column) == IF column = "trie" THEN "flat" ELSE "trie"

\* The database of the harness: the keys of each column.
ScanDb ==
    [c \in Columns |-> IF c = scan.column THEN scan.keys ELSE scan.other]

\* A column with some keys, the other column either empty or holding the same
\* keys, a prefix to look for, the position at which the RocksDB iterator
\* reports an error, if it does, and whether the write of a batch fails.
ScanInit ==
    /\ BaseInit
    /\ imp = "idle"
    /\ stp = "idle"
    /\ bonsai = "idle"
    /\ rpc = "idle"
    /\ job = "idle"
    /\ \E c \in Columns, p \in ByteStrings, e \in 0 .. MaxEntries, w \in BOOLEAN :
         \E K \in {S \in SUBSET ByteStrings : Cardinality(S) <= MaxEntries} :
           \E O \in {{}, K} :
             scan = [column |-> c, keys |-> K, other |-> O, prefix |-> p,
                     err |-> e, werr |-> w,
                     called |-> FALSE, removed |-> FALSE,
                     out |-> <<>>, res |-> "none",
                     after |-> [x \in Columns |-> IF x = c THEN K ELSE O],
                     writes |-> <<>>]

CallGetByPrefix ==
    /\ ~scan.called
    /\ ~scan.removed
    /\ scan' = [scan EXCEPT
                  !.called = TRUE,
                  !.res = "Ok",
                  !.out = get_by_prefix(scan.column, scan.keys, scan.prefix,
                                        scan.err)]
    /\ UNCHANGED nonScanVars

CallRemoveByPrefix ==
    /\ ~scan.called
    /\ ~scan.removed
    /\ LET r == remove_by_prefix(ScanDb, scan.column, scan.prefix, scan.err,
                                 scan.werr)
       IN  scan' = [scan EXCEPT
                      !.removed = TRUE,
                      !.res = r.res,
                      !.after = r.db,
                      !.writes = r.writes]
    /\ UNCHANGED nonScanVars

ScanNext ==
    \/ CallGetByPrefix
    \/ CallRemoveByPrefix

SpecScan == ScanInit /\ [][ScanNext]_vars

(***************************************************************************)
(* starknet_getEvents (rpc get_events.rs): the event filter and the        *)
(* pagination over the stored chain.  An event is its sender and its keys; *)
(* a receipt is its events, its transaction hash its place in the block.   *)
(***************************************************************************)
\* The most blocks of the stored chain.
MaxChain == 2
\* crate::constants, scaled down.
MAX_EVENTS_CHUNK_SIZE == 3
MAX_EVENTS_KEYS == 2

EventFelts == {0, 1}
EventKeys == UNION {[1 .. n -> EventFelts] : n \in 0 .. MAX_EVENTS_KEYS}
Events == [from_address : EventFelts, keys : EventKeys]

\* BlockId as the filter carries it: absent, a tag, or a number.
BlockId_none == [tag |-> "none", n |-> 0]
BlockId_Latest == [tag |-> "latest", n |-> 0]
BlockId_Pending == [tag |-> "pending", n |-> 0]
BlockId_Number(n) == [tag |-> "number", n |-> n]

\* A block lookup that takes the number as it is, stored or not.
Starknet_get_block_n_any(chain, id) ==
    IF id.tag = "number" THEN id.n
    ELSE IF chain = <<>> THEN None ELSE Len(chain) - 1

\* Starknet::get_block_n for Latest and Number(n): the number of the block
\* when it is stored, None for BlockNotFound.  Block n is chain[n + 1].
Starknet_get_block_n(chain, id) ==
    IF id.tag = "number"
    THEN IF id.n < Len(chain) THEN id.n ELSE None
    ELSE IF chain = <<>> THEN None ELSE Len(chain) - 1

\* ContinuationToken::to_string / parse: the text of a token is its two
\* numbers; any other text does not parse.
ContinuationToken_to_string(ct) == <<ct.block_n, ct.event_n>>
ContinuationToken_parse(token) ==
    IF Len(token) = 2
    THEN [ok |-> TRUE, block_n |-> token[1], event_n |-> token[2]]
    ELSE [ok |-> FALSE, block_n |-> 0, event_n |-> 0]

\* A key filter that looks only at the positions the event has.
match_keys_short(event, keys) ==
    \A i \in 1 .. Len(keys) :
        Len(event.keys) > i - 1 => (keys[i] = {} \/ event.keys[i] \in keys[i])

\* keys.iter().enumerate().all(|(i, keys)| event.keys.len() > i
\*     && (keys.is_empty() || keys.contains(&event.keys[i])))
match_keys(event, keys) ==
    \A i \in 1 .. Len(keys) :
        Len(event.keys) > i - 1 /\ (keys[i] = {} \/ event.keys[i] \in keys[i])

\* receipt.events_owned().into_iter().filter_map(..): the events of one
\* receipt that pass the address and the key filter, as EmittedEvents.
filter_map(block_number, transaction_hash, events, address, keys) ==
    LET kept == SelectSeq(events, LAMBDA event :
                    /\ ~(address # None /\ address # event.from_address)
                    /\ match_keys(event, keys))
    IN  [i \in 1 .. Len(kept) |->
            [from_address |-> kept[i].from_address,
             keys |-> kept[i].keys,
             block_number |-> block_number,
             transaction_hash |-> transaction_hash]]

RECURSIVE flat_map(_, _, _, _, _)
\* block.inner.receipts.into_iter().flat_map(..).collect(), from the i-th
\* receipt on.
flat_map(block_number, receipts, address, keys, i) ==
    IF i > Len(receipts) THEN <<>>
    ELSE filter_map(block_number, i, receipts[i], address, keys)
            \o flat_map(block_number, receipts, address, keys, i + 1)

\* get_block_events; block_number is None for the pending block.
get_block_events(block_number, receipts, address, keys) ==
    flat_map(block_number, receipts, address, keys, 1)

EventsErr(err) == [res |-> "Err", err |-> err, events |-> <<>>, token |-> <<>>]
EventsPage(events, token) ==
    [res |-> "Ok", err |-> "none", events |-> events, token |-> token]

\* A token that always counts from the start of the block.
next_event_n_restart(block_n, from_block, token_event_n, chunk_size, num_events) ==
    num_events

\* let event_n = if block_n == from_block { continuation_token.event_n
\*     + chunk_size } else { num_events as u64 };
next_event_n(block_n, from_block, token_event_n, chunk_size, num_events) ==
    IF block_n = from_block THEN token_event_n + chunk_size ELSE num_events

RECURSIVE get_events_loop(_, _, _, _, _, _, _, _)
\* for block_n in from_block..=to_block { .. } and the page after the loop;
\* ct is the continuation token, whose block_n is the loop's from_block.
get_events_loop(chain, pending, latest_block, filter, ct, to_block, block_n, filtered_events) ==
    IF block_n > to_block THEN EventsPage(filtered_events, <<>>)
    ELSE
    LET block == IF block_n <= latest_block THEN chain[block_n + 1] ELSE pending
        block_number == IF block_n <= latest_block THEN block_n ELSE None
        block_filtered_events ==
            get_block_events(block_number, block, filter.address, filter.keys)
        skip == IF block_n = ct.block_n THEN ct.event_n ELSE 0
        take == filter.chunk_size - Len(filtered_events)
        last == IF Len(block_filtered_events) <= skip + take
                THEN Len(block_filtered_events) ELSE skip + take
        block_filtered_reduced_events == SubSeq(block_filtered_events, skip + 1, last)
        num_events == Len(block_filtered_reduced_events)
        extended == filtered_events \o block_filtered_reduced_events
    IN  IF block_n = ct.block_n /\ Len(block_filtered_events) < ct.event_n
        THEN EventsErr("InvalidContinuationToken")
        ELSE IF Len(extended) = filter.chunk_size
        THEN EventsPage(extended, ContinuationToken_to_string(
                [block_n |-> block_n,
                 event_n |-> next_event_n(block_n, ct.block_n, ct.event_n,
                                          filter.chunk_size, num_events)]))
        ELSE get_events_loop(chain, pending, latest_block, filter, ct, to_block,
                             block_n + 1, extended)

\* The block number an optional BlockId of the filter stands for: Pending
\* is the block after the latest, an absent one is dflt.
filter_block_n(chain, latest_block, id, dflt) ==
    CASE id.tag = "pending" -> latest_block + 1
      [] id.tag = "none" -> dflt
      [] OTHER -> Starknet_get_block_n(chain, id)

\* get_events; token is the text of filter.result_page_request's
\* continuation_token, <<>> when there is none.
get_events(chain, pending, filter, token) ==
    IF Len(filter.keys) > MAX_EVENTS_KEYS THEN EventsErr("TooManyKeysInFilter")
    ELSE IF filter.chunk_size > MAX_EVENTS_CHUNK_SIZE THEN EventsErr("PageSizeTooBig")
    ELSE
    LET latest_block == Starknet_get_block_n(chain, BlockId_Latest)
        from_block == filter_block_n(chain, latest_block, filter.from_block, 0)
        to_block == filter_block_n(chain, latest_block, filter.to_block, latest_block)
        ct == IF token = <<>> THEN [ok |-> TRUE, block_n |-> from_block, event_n |-> 0]
              ELSE ContinuationToken_parse(token)
    IN  IF latest_block = None \/ from_block = None \/ to_block = None
        THEN EventsErr("BlockNotFound")
        ELSE IF from_block > to_block THEN EventsPage(<<>>, <<>>)
        ELSE IF ~ct.ok THEN EventsErr("InvalidContinuationToken")
        ELSE get_events_loop(chain, pending, latest_block, filter, ct, to_block,
                             ct.block_n, <<>>)

nonRpcVars == <<head, syncVars, cellVars, ret, imp, stp, bonsai, scan, job>>

\* Blocks to page through: no receipt; one receipt with one event; receipts
\* with two events and one; a receipt without events between two others.
EventA == [from_address |-> 0, keys |-> <<0>>]
EventB == [from_address |-> 1, keys |-> <<1>>]
BlockSamples ==
    {<<>>, <<<<EventA>>>>, <<<<EventA, EventB>>, <<EventA>>>>,
     <<<<EventB>>, <<>>, <<EventA, EventA>>>>}
BlockIds ==
    {BlockId_none, BlockId_Latest, BlockId_Pending}
        \cup {BlockId_Number(n) : n \in 0 .. MaxChain}

\* Requests to page through a chain of sample blocks, with and without a
\* key filter; the largest chunk size is one too many.
PagingInputs ==
    [chain : UNION {[1 .. n -> BlockSamples] : n \in 0 .. MaxChain},
     pending : {<<>>, <<<<EventA>>>>},
     filter : [from_block : BlockIds, to_block : BlockIds, address : {None},
               keys : {<<>>, <<{0}>>},
               chunk_size : 1 .. (MAX_EVENTS_CHUNK_SIZE + 1)]]

\* The key filters: a set of values per position (empty: any value), up to
\* MAX_EVENTS_KEYS positions, and one with a position too many.
KeyFilters ==
    UNION {[1 .. n -> SUBSET EventFelts] : n \in 0 .. MAX_EVENTS_KEYS}
        \cup {[i \in 1 .. (MAX_EVENTS_KEYS + 1) |-> {}]}

\* Requests that filter one stored block of two receipts with at most one
\* event each, whatever the events, the address and the keys.
FilterInputs ==
    [chain : {<<<<r1, r2>>>> : r1, r2 \in {<<>>} \cup {<<e>> : e \in Events}},
     pending : {<<>>},
     filter : [from_block : {BlockId_none}, to_block : {BlockId_none},
               address : {None} \cup EventFelts,
               keys : KeyFilters,
               chunk_size : {MAX_EVENTS_CHUNK_SIZE}]]

EventsInit ==
    /\ BaseInit
    /\ imp = "idle"
    /\ stp = "idle"
    /\ bonsai = "idle"
    /\ scan = "idle"
    /\ job = "idle"
    /\ \E in \in PagingInputs \cup FilterInputs :
         rpc = [chain |-> in.chain, pending |-> in.pending, filter |-> in.filter,
                token |-> <<>>, pages |-> <<>>, st |-> "paging", err |-> "none"]

\* One call of get_events with the token the call before returned.
CallGetEvents ==
    /\ rpc.st = "paging"
    /\ LET r == get_events(rpc.chain, rpc.pending, rpc.filter, rpc.token)
       IN  rpc' = [rpc EXCEPT
                     !.st = IF r.res = "Err" THEN "err"
                            ELSE IF r.token = <<>> THEN "done" ELSE "paging",
                     !.err = r.err,
                     !.token = r.token,
                     !.pages = IF r.res = "Ok" THEN Append(@, r.events) ELSE @]
    /\ UNCHANGED nonRpcVars

EventsNext == CallGetEvents

SpecEvents == EventsInit /\ [][EventsNext]_vars

(***************************************************************************)
(* The orchestrator's jobs (src/jobs/mod.rs): process_job run by two       *)
(* workers on the same job.  Every await of process_job is a step; the     *)
(* database keeps one row per job, with a version.                         *)
(***************************************************************************)
Workers == {1, 2}
JobStatus == {"Created", "LockedForProcessing", "PendingVerification",
              "Completed", "VerificationFailed"}

\* An update that writes whatever the version of the caller's copy.
update_job_status_unversioned(row, item, new_status) ==
    [ok |-> TRUE,
     row |-> [row EXCEPT !.status = new_status, !.version = row.version + 1]]

\* Database::update_job_status(&job, status): the row takes the status and
\* its version goes up, unless the version of the caller's copy is not the
\* row's any more, which is an error.
update_job_status(row, item, new_status) ==
    IF row.version = item.version
    THEN [ok |-> TRUE,
          row |-> [row EXCEPT !.status = new_status, !.version = row.version + 1]]
    ELSE [ok |-> FALSE, row |-> row]

\* Database::update_external_id_and_status_and_metadata(&job, ..): as
\* update_job_status, with the metadata; versioned says whether the database
\* holds the caller's copy against the row's version for this update too.
update_external_id_and_status_and_metadata(row, item, new_status, metadata, versioned) ==
    IF versioned /\ row.version # item.version
    THEN [ok |-> FALSE, row |-> row]
    ELSE [ok |-> TRUE,
          row |-> [row EXCEPT !.status = new_status, !.attempts = metadata,
                              !.version = row.version + 1]]

\* increment_key_in_metadata(&job.metadata, JOB_PROCESS_ATTEMPT_METADATA_KEY)
increment_key_in_metadata(metadata) == metadata + 1

nonJobVars == <<head, syncVars, cellVars, ret, imp, stp, bonsai, scan, rpc>>

IdleWorker == [pc |-> "idle", item |-> <<>>, at |-> "none"]

\* A job row in any status, or no row, and two workers that were handed the
\* job's id.
JobInit ==
    /\ BaseInit
    /\ imp = "idle"
    /\ stp = "idle"
    /\ bonsai = "idle"
    /\ scan = "idle"
    /\ rpc = "idle"
    /\ \E exists \in BOOLEAN, status \in JobStatus :
         job = [row |-> [exists |-> exists, status |-> status, version |-> 0,
                         attempts |-> 0],
                w |-> [x \in Workers |-> IdleWorker],
                passed |-> {}, invoked |-> <<>>, queue |-> <<>>]

JobFails(w, at) == [job.w EXCEPT ![w] = [@ EXCEPT !.pc = "failed", !.at = at]]

\* let job = get_job(id).await?; match job.status { Created |
\* VerificationFailed => .., _ => return Err(..) }
GetJob(w) ==
    /\ job.w[w].pc = "idle"
    /\ job' = [job EXCEPT !.w =
                 IF ~job.row.exists THEN JobFails(w, "get_job")
                 ELSE IF job.row.status \notin {"Created", "VerificationFailed"}
                 THEN JobFails(w, "status")
                 ELSE [job.w EXCEPT ![w] = [pc |-> "checked", item |-> <<job.row>>,
                                            at |-> "none"]]]
    /\ UNCHANGED nonJobVars

\* config.database().update_job_status(&job, LockedForProcessing).await?;
UpdateJobStatus(w) ==
    /\ job.w[w].pc = "checked"
    /\ LET r == update_job_status(job.row, job.w[w].item[1], "LockedForProcessing")
       IN  job' = [job EXCEPT
                     !.row = r.row,
                     !.passed = IF r.ok THEN @ \cup {w} ELSE @,
                     !.w = IF r.ok THEN [job.w EXCEPT ![w].pc = "locked"]
                           ELSE JobFails(w, "update_job_status")]
    /\ UNCHANGED nonJobVars

\* let external_id = job_handler.process_job(config, &job).await?;
HandlerProcessJob(w, ok) ==
    /\ job.w[w].pc = "locked"
    /\ job' = [job EXCEPT
                 !.invoked = Append(@, w),
                 !.w = IF ok THEN [job.w EXCEPT ![w].pc = "processed"]
                       ELSE JobFails(w, "process_job")]
    /\ UNCHANGED nonJobVars

\* increment_key_in_metadata, then
\* update_external_id_and_status_and_metadata(&job, external_id,
\*     PendingVerification, metadata).await?;
UpdateExternalId(w, versioned) ==
    /\ job.w[w].pc = "processed"
    /\ LET item == job.w[w].item[1]
           r == update_external_id_and_status_and_metadata(job.row, item,
                    "PendingVerification",
                    increment_key_in_metadata(item.attempts), versioned)
       IN  job' = [job EXCEPT
                     !.row = r.row,
                     !.w = IF r.ok THEN [job.w EXCEPT ![w].pc = "updated"]
                           ELSE JobFails(w, "update_external_id")]
    /\ UNCHANGED nonJobVars

\* add_job_to_verification_queue(job.id, delay).await?; Ok(())
AddJobToVerificationQueue(w, ok) ==
    /\ job.w[w].pc = "updated"
    /\ job' = [job EXCEPT
                 !.queue = IF ok THEN Append(@, w) ELSE @,
                 !.w = IF ok THEN [job.w EXCEPT ![w].pc = "done"]
                       ELSE JobFails(w, "add_job_to_verification_queue")]
    /\ UNCHANGED nonJobVars

JobNext ==
    \/ \E w \in Workers : GetJob(w)
    \/ \E w \in Workers : UpdateJobStatus(w)
    \/ \E w \in Workers, ok \in BOOLEAN : HandlerProcessJob(w, ok)
    \/ \E w \in Workers, versioned \in BOOLEAN : UpdateExternalId(w, versioned)
    \/ \E w \in Workers, ok \in BOOLEAN : AddJobToVerificationQueue(w, ok)

SpecJob == JobInit /\ [][JobNext]_vars

(***************************************************************************)
(* One job through process_job and verify_job (src/jobs/mod.rs).  A call   *)
(* is one step; fail names the await of the call that returns an error     *)
(* ("none": every await succeeds), verdict what the handler's verify_job   *)
(* answers.                                                                *)
(***************************************************************************)
\* Calls made on the job in one behaviour.
MaxCalls == 5
\* max_process_attempts() and max_verification_attempts() of the handler
\* range over 0 .. MaxAttempts.
MaxAttempts == 2

ProcessFailures == {"none", "get_job", "update_job_status", "process_job",
                    "update_external_id", "add_job_to_verification_queue"}
VerifyFailures == {"none", "get_job", "verify_job", "update_job_status",
                   "add_job_to_queue"}
JobVerificationStatus == {"VERIFIED", "REJECTED", "PENDING"}

\* What a call did: its result, the row it leaves, whether it invoked the
\* handler (handled: the handler's process_job returned Ok), and the
\* messages it added to the process and the verification queue.
JobCall(ok, row, invoked, handled, pq, vq) == [ok |-> ok, row |-> row, invoked |-> invoked, handled |-> handled, pq |-> pq, vq |-> vq]

\* A status check that lets every status through.
process_job_status_any(status) == TRUE

\* match job.status { Created | VerificationFailed => .., _ => return Err }
process_job_status(status) == status \in {"Created", "VerificationFailed"}

\* match job.status { PendingVerification => .., _ => return Err }
verify_job_status(status) == status = "PendingVerification"

\* get_u64_from_metadata(&job.metadata, JOB_PROCESS_ATTEMPT_METADATA_KEY):
\* the counter, 0 when the key is absent.
get_u64_from_metadata(metadata) == metadata

\* A process_job that undoes the lock when a later await fails.
process_job_unlocking(row, fail) ==
    IF fail \in {"get_job", "update_job_status"} \/ ~row.exists \/ ~process_job_status(row.status)
    THEN JobCall(FALSE, row, FALSE, FALSE, 0, 0)
    ELSE IF fail = "none"
    THEN JobCall(TRUE, [row EXCEPT !.status = "PendingVerification", !.attempts = @ + 1, !.version = @ + 2], TRUE, TRUE, 0, 1)
    ELSE JobCall(FALSE, row, TRUE, fail # "process_job", 0, 0)

\* process_job(id)
process_job(row, fail) ==
    LET locked == update_job_status(row, row, "LockedForProcessing").row
        metadata == increment_key_in_metadata(row.attempts)
        updated == update_external_id_and_status_and_metadata(locked, row,
                       "PendingVerification", metadata, FALSE).row
    IN  IF fail = "get_job" \/ ~row.exists
        THEN JobCall(FALSE, row, FALSE, FALSE, 0, 0)
        ELSE IF ~process_job_status(row.status)
        THEN JobCall(FALSE, row, FALSE, FALSE, 0, 0)
        ELSE IF fail = "update_job_status"
        THEN JobCall(FALSE, row, FALSE, FALSE, 0, 0)
        ELSE IF fail = "process_job"
        THEN JobCall(FALSE, locked, TRUE, FALSE, 0, 0)
        ELSE IF fail = "update_external_id"
        THEN JobCall(FALSE, locked, TRUE, TRUE, 0, 0)
        ELSE IF fail = "add_job_to_verification_queue"
        THEN JobCall(FALSE, updated, TRUE, TRUE, 0, 0)
        ELSE JobCall(TRUE, updated, TRUE, TRUE, 0, 1)

\* A verify_job that retries the processing of a rejected job whatever its
\* attempts.
verify_job_always_retrying(row, verdict, fail, max_process_attempts) ==
    IF fail # "none" \/ ~row.exists \/ ~verify_job_status(row.status)
    THEN JobCall(FALSE, row, FALSE, FALSE, 0, 0)
    ELSE IF verdict = "VERIFIED"
    THEN JobCall(TRUE, [row EXCEPT !.status = "Completed", !.version = @ + 1], TRUE, FALSE, 0, 0)
    ELSE IF verdict = "REJECTED"
    THEN JobCall(TRUE, [row EXCEPT !.status = "VerificationFailed", !.version = @ + 1], TRUE, FALSE, 1, 0)
    ELSE JobCall(TRUE, row, TRUE, FALSE, 0, 1)

\* verify_job(id)
verify_job(row, verdict, fail, max_process_attempts) ==
    LET completed == update_job_status(row, row, "Completed").row
        rejected == update_job_status(row, row, "VerificationFailed").row
        process_attempts == get_u64_from_metadata(row.attempts)
    IN  IF fail = "get_job" \/ ~row.exists
        THEN JobCall(FALSE, row, FALSE, FALSE, 0, 0)
        ELSE IF ~verify_job_status(row.status)
        THEN JobCall(FALSE, row, FALSE, FALSE, 0, 0)
        ELSE IF fail = "verify_job"
        THEN JobCall(FALSE, row, TRUE, FALSE, 0, 0)
        ELSE IF verdict = "VERIFIED"
        THEN IF fail = "update_job_status"
             THEN JobCall(FALSE, row, TRUE, FALSE, 0, 0)
             ELSE JobCall(TRUE, completed, TRUE, FALSE, 0, 0)
        ELSE IF verdict = "REJECTED"
        THEN IF fail = "update_job_status"
             THEN JobCall(FALSE, row, TRUE, FALSE, 0, 0)
             ELSE IF process_attempts < max_process_attempts
             THEN IF fail = "add_job_to_queue"
                  THEN JobCall(FALSE, rejected, TRUE, FALSE, 0, 0)
                  ELSE JobCall(TRUE, rejected, TRUE, FALSE, 1, 0)
             ELSE JobCall(TRUE, rejected, TRUE, FALSE, 0, 0)
        ELSE IF fail = "add_job_to_queue"
        THEN JobCall(FALSE, row, TRUE, FALSE, 0, 0)
        ELSE JobCall(TRUE, row, TRUE, FALSE, 0, 1)

NoJobCall == [op |-> "none", verdict |-> "none", fail |-> "none", queued |-> FALSE, before |-> <<>>, did |-> <<>>]

\* The job create_job left: Created, no attempt recorded, its id in the
\* process queue; the handler's limits are drawn.
JobLifeInit ==
    /\ BaseInit
    /\ imp = "idle"
    /\ stp = "idle"
    /\ bonsai = "idle"
    /\ scan = "idle"
    /\ rpc = "idle"
    /\ \E maxp \in 0 .. MaxAttempts, maxv \in 0 .. MaxAttempts :
         job = [row |-> [exists |-> TRUE, status |-> "Created", version |-> 0,
                         attempts |-> 0],
                max_process_attempts |-> maxp,
                max_verification_attempts |-> maxv,
                calls |-> 0, handled |-> 0, pending |-> 0, direct |-> FALSE,
                pq |-> 1, vq |-> 0, last |-> NoJobCall]

\* The state after a call: the row the call left, the queues with the
\* message the call was handed taken out (queued) and its own added.
JobAfter(op, verdict, fail, queued, did) ==
    [job EXCEPT
       !.row = did.row,
       !.calls = @ + 1,
       !.handled = IF did.handled THEN @ + 1 ELSE @,
       !.pending = IF op = "verify_job" /\ verdict = "PENDING" THEN @ + did.vq ELSE @,
       !.direct = @ \/ ~queued,
       !.pq = (IF op = "process_job" /\ queued THEN @ - 1 ELSE @) + did.pq,
       !.vq = (IF op = "verify_job" /\ queued THEN @ - 1 ELSE @) + did.vq,
       !.last = [op |-> op, verdict |-> verdict, fail |-> fail,
                 queued |-> queued, before |-> <<job.row>>, did |-> <<did>>]]

\* A worker takes the job's id from the process queue, or a caller passes
\* it, and process_job(id) runs.
ProcessJob(fail) ==
    /\ job.calls < MaxCalls
    /\ job' = JobAfter("process_job", "none", fail, job.pq > 0, process_job(job.row, fail))
    /\ UNCHANGED nonJobVars

\* The same for the verification queue and verify_job(id).
VerifyJob(verdict, fail) ==
    /\ job.calls < MaxCalls
    /\ job' = JobAfter("verify_job", verdict, fail, job.vq > 0,
                       verify_job(job.row, verdict, fail, job.max_process_attempts))
    /\ UNCHANGED nonJobVars

JobLifeNext ==
    \/ \E fail \in ProcessFailures : ProcessJob(fail)
    \/ \E verdict \in JobVerificationStatus, fail \in VerifyFailures : VerifyJob(verdict, fail)

SpecJobLife == JobLifeInit /\ [][JobLifeNext]_vars

(***************************************************************************)
(* create_job (src/jobs/mod.rs) called by two callers at once.  Every      *)
(* await of create_job is a step; the job type is the one that has a       *)
(* handler, so a job is named by its internal id.                          *)
(***************************************************************************)
\* Internal ids range over 1 .. MaxInternalId.
MaxInternalId == 2
InternalIds == 1 .. MaxInternalId

\* Database::create_job(job_item): the row is added; unique says whether the
\* database refuses a second row for the same internal id and job type.
Database_create_job(rows, internal_id, unique) ==
    IF unique /\ rows[internal_id] > 0
    THEN [ok |-> FALSE, rows |-> rows]
    ELSE [ok |-> TRUE, rows |-> [rows EXCEPT ![internal_id] = @ + 1]]

IdleCaller == [pc |-> "idle", internal_id |-> 0, at |-> "none"]

\* For every internal id a job that exists already or none, and two callers
\* about to call create_job.
CreateJobInit ==
    /\ BaseInit
    /\ imp = "idle"
    /\ stp = "idle"
    /\ bonsai = "idle"
    /\ scan = "idle"
    /\ rpc = "idle"
    /\ \E rows \in [InternalIds -> {0, 1}] :
         job = [rows |-> rows, queue |-> <<>>,
                w |-> [x \in Workers |-> IdleCaller]]

CreateFails(w, at) == [job.w EXCEPT ![w].pc = "failed", ![w].at = at]

\* let existing_job = database().get_job_by_internal_id_and_type(..).await?;
\* if existing_job.is_some() { return Err(..) }
CreateGetJob(w, internal_id, ok) ==
    /\ job.w[w].pc = "idle"
    /\ job' = [job EXCEPT !.w =
                 IF ~ok
                 THEN [CreateFails(w, "get_job") EXCEPT ![w].internal_id = internal_id]
                 ELSE IF job.rows[internal_id] > 0
                 THEN [CreateFails(w, "exists") EXCEPT ![w].internal_id = internal_id]
                 ELSE [job.w EXCEPT ![w] = [pc |-> "absent",
                                            internal_id |-> internal_id,
                                            at |-> "none"]]]
    /\ UNCHANGED nonJobVars

\* let job_item = job_handler.create_job(config, internal_id).await?;
CreateHandler(w, ok) ==
    /\ job.w[w].pc = "absent"
    /\ job' = [job EXCEPT !.w = IF ok THEN [job.w EXCEPT ![w].pc = "built"]
                                 ELSE CreateFails(w, "create_job")]
    /\ UNCHANGED nonJobVars

\* config.database().create_job(job_item.clone()).await?;
CreateStore(w, ok, unique) ==
    /\ job.w[w].pc = "built"
    /\ LET r == Database_create_job(job.rows, job.w[w].internal_id, unique)
       IN  job' = IF ok /\ r.ok
                  THEN [job EXCEPT !.rows = r.rows,
                                   !.w = [job.w EXCEPT ![w].pc = "stored"]]
                  ELSE [job EXCEPT !.w = CreateFails(w, "database")]
    /\ UNCHANGED nonJobVars

\* add_job_to_process_queue(job_item.id).await?; Ok(())
CreateEnqueue(w, ok) ==
    /\ job.w[w].pc = "stored"
    /\ job' = [job EXCEPT
                 !.queue = IF ok THEN Append(@, job.w[w].internal_id) ELSE @,
                 !.w = IF ok THEN [job.w EXCEPT ![w].pc = "done"]
                       ELSE CreateFails(w, "add_job_to_process_queue")]
    /\ UNCHANGED nonJobVars

CreateJobNext ==
    \/ \E w \in Workers, internal_id \in InternalIds, ok \in BOOLEAN : CreateGetJob(w, internal_id, ok)
    \/ \E w \in Workers, ok \in BOOLEAN : CreateHandler(w, ok)
    \/ \E w \in Workers, ok \in BOOLEAN, unique \in BOOLEAN : CreateStore(w, ok, unique)
    \/ \E w \in Workers, ok \in BOOLEAN : CreateEnqueue(w, ok)

SpecCreateJob == CreateJobInit /\ [][CreateJobNext]_vars

(***************************************************************************)
(* Properties.                                                             *)
(***************************************************************************)
SixFacets == Facets \ {"l1_head"}
AllSixSome(h) == \A f \in SixFacets : BlockNStatus_get(h[f]) # None
MinOfSix(h) ==
    CHOOSE m \in {BlockNStatus_get(h[f]) : f \in SixFacets} :
        \A f \in SixFacets : m <= BlockNStatus_get(h[f])

\* C1: latest_full_block_n() returns the minimum of the six facet counters
\* headers, state_diffs, classes, transactions, events and global_trie
\* whenever all six are Some.
C1_LatestIsMinOfSix ==
    (ret.op = "latest_full_block_n" /\ AllSixSome(head))
        => ret.val = MinOfSix(head)

\* C2: whenever a facet counter equals Some(n), every block 0..=n has been
\* verified and saved for that facet, also after a restart that reloads the
\* persisted head and restarts the pipelines from starting_block_n.
C2_NoBlockSkipped ==
    \A f \in SixFacets :
        \A b \in 0 .. BlockNStatus_get(head[f]) : b \in saved[f]

\* C3: the sequential steps of a pipeline run in ascending order of range
\* start, whatever the order in which the parallel steps of the ranges ended.
Ascending(q) == \A i, j \in 1 .. Len(q) : i < j => q[i] < q[j]
C3_SequentialInRangeOrder == \A p \in Pipelines : Ascending(seqLog[p])

\* Two parallel steps ended out of order and both ranges got their
\* sequential step.
C3_Witness ==
    \E p \in Pipelines :
        /\ ~Ascending(parLog[p])
        /\ \A i \in 1 .. Len(parLog[p]) :
                \E j \in 1 .. Len(seqLog[p]) : seqLog[p][j] = parLog[p][i]

\* C4: within one process lifetime (no restart in between) the value of
\* head.latest_full_block_n() never decreases from one step to the next.
C4_LatestFullNeverDecreases ==
    [][restarts' = restarts
         => latest_full_block_n(head') >= latest_full_block_n(head)]_vars

\* After a restart, sequential steps have moved latest_full_block_n again.
C4_Witness ==
    /\ restarts = 1
    /\ lastStep.kind = "seq_ok"
    /\ lastStep.p = "blocks"
    /\ lastStep.start >= 1
    /\ latest_full_block_n(head) = lastStep.start

\* C5, as claimed: the counter is a monotone cell, so successive get()
\* calls of a reader never observe a decrease.
C5_GetNeverDecreases == obs[2] >= obs[1]

\* C5, amended: the counter is a plain atomic cell; whatever the
\* interleaving of the set calls, it holds the argument of the latest
\* store, lower or None included.
C5_CellHoldsLatestStore == BlockNStatus_get(cell) = lastStore

\* A reader saw Some(n) and then, after a set with a lower value, less.
C5_Witness ==
    /\ obs[1] > obs[2]
    /\ obs[2] = lastStore
    /\ BlockNStatus_get(cell) = lastStore

\* C6: a range is pushed into the classes and apply-state pipelines only in
\* a state where both can schedule more, and neither ever holds more ranges
\* than its parallelization.
C6_DownstreamWithinCapacity ==
    /\ [](\A p \in Downstream : Len(queue[p]) <= Parallelization(p))
    /\ [][(~p2p_sync /\ \E p \in Downstream : Len(queue'[p]) > Len(queue[p]))
            => (can_schedule_more("classes") /\ can_schedule_more("apply_state"))]_vars

\* Both downstream windows are full after a push, and the next result of
\* the blocks pipeline is being held back.
C6_Witness ==
    /\ ~p2p_sync
    /\ Len(pushed["classes"]) >= 1
    /\ \A p \in Downstream : Len(queue[p]) = Parallelization(p)
    /\ next_yields("blocks")

\* C7: a range reaches the classes and apply-state pipelines only with the
\* step in which the blocks sequential step for it succeeded (the headers,
\* state_diffs, transactions and events counters then at or above its last
\* block), and both receive exactly the ranges the blocks pipeline emitted,
\* in the same order.
C7_DownstreamFedAfterBlocksCommit ==
    /\ [](~p2p_sync => \A p \in Downstream : pushed[p] = emitted)
    /\ [][\A p \in Downstream :
            (~p2p_sync /\ Len(pushed'[p]) > Len(pushed[p]))
            => /\ lastStep' = [kind |-> "seq_ok", p |-> "blocks",
                               start |-> pushed'[p][Len(pushed'[p])],
                               len |-> lastStep'.len]
               /\ seqLog'["blocks"] = Append(seqLog["blocks"], lastStep'.start)
               /\ \A f \in {"headers", "state_diffs", "transactions", "events"} :
                    BlockNStatus_get(head'[f]) >= lastStep'.start + lastStep'.len - 1]_vars

C7_Witness ==
    /\ ~p2p_sync
    /\ Len(emitted) >= 2
    /\ \A p \in Downstream : pushed[p] = emitted

\* C8: after any stage's sequential step completed for a non-empty range,
\* the persisted head_status row equals the in-memory ChainHead.
C8_SequentialStepPersistsHead ==
    (lastStep.kind = "seq_ok" /\ lastStep.len > 0) => persisted = head

\* C9, as claimed: when run() returns the error a pipeline yielded, the
\* ranges that were in flight have been drained.
ErrorKinds == {"seq_err", "yield_err"}
C9_ErrorOnlyAfterDrain ==
    (runState = "err" /\ lastStep.kind \in ErrorKinds)
        => \A p \in Pipelines : queue[p] = <<>>

\* C9, amended: the step that yields a failure makes run() return the
\* error at once; from then on the loop schedules no range and runs no
\* sequential step, and the ranges in flight stay where they are.
C9_ErrorReturnedAtOnce ==
    /\ [](lastStep.kind \in ErrorKinds => runState = "err")
    /\ [][(runState = "err" /\ restarts' = restarts)
            => /\ runState' = "err"
               /\ head' = head /\ persisted' = persisted
               /\ seqLog' = seqLog /\ nextBlock' = nextBlock
               /\ \A p \in Pipelines : Len(queue'[p]) = Len(queue[p])]_vars

\* run() has returned an error while a parallel step is still running and
\* a finished range waits for its sequential step.
C9_Witness ==
    /\ runState = "err"
    /\ lastStep.kind \in ErrorKinds
    /\ \E p \in Pipelines : \E i \in 1 .. Len(queue[p]) : queue[p][i].st = "Running"
    /\ \E p \in Pipelines : \E i \in 1 .. Len(queue[p]) : queue[p][i].st = "Ready"

\* C10: a step in which a parallel step ends (with success or failure)
\* leaves every head counter and the persisted row unchanged; the counters
\* change only in steps that run a sequential step (or restart the process).
C10_ParallelStepsKeepHead ==
    [][/\ (parLog' # parLog /\ restarts' = restarts)
            => (head' = head /\ persisted' = persisted)
       /\ head' # head => (seqLog' # seqLog \/ restarts' # restarts)]_vars

\* A gateway parallel step failed after saving the header of its block; the
\* headers counter is still below that block.
C10_Witness ==
    /\ lastStep.kind = "par_err"
    /\ lastStep.p = "blocks"
    /\ lastStep.start \in saved["headers"]
    /\ BlockNStatus_get(head["headers"]) < lastStep.start

(***************************************************************************)
(* Properties of the importer.                                             *)
(***************************************************************************)
\* The version the importer computes commitments under.
CommitmentVersion(header) == StarknetVersion_max(header.protocol_version, V0_13_2)

\* C11: the header the gateway blocks parallel step saved for a block
\* carries the transaction, receipt, event and state-diff commitments
\* recomputed from the transactions, events and state diff it saved for
\* that block, for every protocol version, gateway commitment and setting
\* of no_check.
C11_SavedHeaderCommitsToSavedBodies ==
    (imp.op = "gateway_import" /\ imp.store.header # <<>>) =>
        LET header == imp.store.header[1]
            v == CommitmentVersion(header)
        IN  /\ imp.store.transactions # <<>> =>
                /\ header.transaction_commitment
                       = compute_transaction_commitment(imp.store.transactions[1], v)
                /\ header.receipt_commitment
                       = compute_receipt_commitment(imp.store.transactions[1], v)
            /\ imp.store.events # <<>> =>
                header.event_commitment
                    = compute_event_commitment(imp.store.events[1], v)
            /\ imp.store.state_diff # <<>> =>
                header.state_diff_commitment
                    = StateDiff_compute_hash(imp.store.state_diff[1])

\* A pre-v0.13.2 block whose gateway commitments are all wrong is saved
\* in full by an importer that checks.
C11_Witness ==
    /\ imp.op = "gateway_import"
    /\ ~imp.config.no_check
    /\ imp.out.ok
    /\ imp.store.events # <<>>
    /\ imp.in.value.starknet_version < V0_13_2
    /\ imp.in.value.transaction_commitment
           # compute_transaction_commitment(imp.store.transactions[1], V0_13_2)
    /\ imp.in.value.event_commitment
           # compute_event_commitment(imp.store.events[1], V0_13_2)
    /\ imp.in.value.state_diff_commitment = None
    /\ imp.in.value.receipt_commitment = None

\* C12: with the default validation config and a non-empty range whose
\* last block has a stored header, apply_to_global_trie returns Ok exactly
\* when the root computed from the state diffs equals that header's
\* global_state_root, and otherwise fails with GlobalStateRoot carrying the
\* header's root as expected and the computed root as got.
C12_ApplyToGlobalTrieChecksRoot ==
    (/\ imp.op = "apply_to_global_trie"
     /\ imp.config = BlockValidationConfig_default
     /\ imp.in.block_range.len > 0
     /\ imp.in.header_root # None) =>
        LET got == db_apply_to_global_trie(imp.in.root, imp.in.state_diffs) IN
        /\ imp.out.ok <=> got = imp.in.header_root
        /\ ~imp.out.ok =>
            imp.out = Err("GlobalStateRoot", got, imp.in.header_root)

\* An empty state diff applied to the empty trie against a header whose
\* root is not 0: the mismatch is reported with expected the header's root
\* and got 0.
C12_Witness ==
    /\ imp.op = "apply_to_global_trie"
    /\ imp.config = BlockValidationConfig_default
    /\ imp.in.block_range = [start |-> 0, len |-> 1]
    /\ imp.in.root = 0
    /\ imp.in.state_diffs = << <<>> >>
    /\ imp.in.header_root = 1
    /\ imp.out = Err("GlobalStateRoot", 0, 1)


(***************************************************************************)
(* Properties of the p2p steps.                                            *)
(***************************************************************************)
\* C13: whenever the classes counter is Some(b), the classes of every block
\* up to b have been verified and stored; the classes sequential step for a
\* range moves the counter to the range's last block only after the
\* parallel step handled every block of the range, also when the input
\* vector has fewer items than the range has blocks.
C13_ClassesCounterCoversSavedClasses ==
    (stp.pipeline = "classes" /\ BlockNStatus_get(head["classes"]) # None)
        => \A b \in 0 .. BlockNStatus_get(head["classes"]) :
                b \in saved["classes"]

\* C19: when the peer stream ends before it yielded one item for every
\* block of the range, the p2p classes or state-diffs parallel step does
\* not return Ok (it returns the peer error unless saving failed earlier),
\* the sequential step does not run and the counter stays where it was.
C19_TruncatedStreamFailsStep ==
    (stp.par # "none" /\ stp.stream < stp.e.len) =>
        /\ stp.par # "ok"
        /\ stp.stream <= stp.fail => stp.par = "peer_error"
        /\ stp.seq = "none"
        /\ head[stp.pipeline] = persisted[stp.pipeline]


(***************************************************************************)
(* Properties of the verify_* calls.                                       *)
(***************************************************************************)
BodyVerifications == {"verify_transactions", "verify_events", "verify_state_diff"}
CountErrors == {"TransactionCount", "EventCount", "StateDiffLength"}
CommitmentErrors ==
    {"TransactionCommitment", "ReceiptCommitment", "EventCommitment",
     "StateDiffCommitment"}

\* The count error of the call made, if the header's count is not the
\* body's length ("" when it is).
CountMismatch ==
    LET h == imp.in.check_against
        n == Len(imp.in.body)
    IN  CASE imp.op = "verify_transactions" ->
                IF h.transaction_count # n THEN "TransactionCount" ELSE ""
          [] imp.op = "verify_events" ->
                IF h.event_count # n THEN "EventCount" ELSE ""
          [] OTHER ->
                IF unwrap_or_default(h.state_diff_length) # n
                THEN "StateDiffLength" ELSE ""

\* Whether a commitment of the header differs from the one computed from
\* the body.
CommitmentMismatch ==
    LET h == imp.in.check_against
        v == CommitmentVersion(h)
    IN  CASE imp.op = "verify_transactions" ->
                \/ h.transaction_commitment
                       # compute_transaction_commitment(imp.in.body, v)
                \/ unwrap_or_default(h.receipt_commitment)
                       # compute_receipt_commitment(imp.in.body, v)
          [] imp.op = "verify_events" ->
                h.event_commitment # compute_event_commitment(imp.in.body, v)
          [] OTHER ->
                unwrap_or_default(h.state_diff_commitment)
                    # StateDiff_compute_hash(imp.in.body)

\* C16: with no_check false, verify_transactions, verify_events and
\* verify_state_diff fail with the count (length) error whenever the count
\* differs, whatever the protocol version and the commitments (the count
\* error comes first); with the count right they fail with a commitment
\* error exactly when a commitment differs and it is not the case that
\* allow_pre_v0_13_2 is set and the header's version is below V0_13_2.
C16_CountAlwaysCommitmentUnlessPreV0132 ==
    (imp.op \in BodyVerifications /\ ~imp.config.no_check) =>
        LET tolerated == /\ imp.in.allow_pre_v0_13_2
                         /\ imp.in.check_against.protocol_version < V0_13_2
        IN  /\ CountMismatch # "" => imp.out.err = CountMismatch
            /\ CountMismatch = "" =>
                /\ imp.out.err \in CommitmentErrors
                       <=> (CommitmentMismatch /\ ~tolerated)
                /\ imp.out.ok <=> imp.out.err \notin CommitmentErrors

\* A pre-v0.13.2 header with both a wrong transaction count and a wrong
\* transaction commitment, old blocks allowed: TransactionCount.
C16_Witness ==
    /\ imp.op = "verify_transactions"
    /\ ~imp.config.no_check
    /\ imp.in.allow_pre_v0_13_2
    /\ imp.in.check_against.protocol_version < V0_13_2
    /\ CountMismatch = "TransactionCount"
    /\ CommitmentMismatch
    /\ imp.out.err = "TransactionCount"

\* The verification-mismatch errors.
VerificationMismatch ==
    {"BlockNumber", "TransactionCount", "TransactionCommitment", "EventCount",
     "EventCommitment", "StateDiffLength", "StateDiffCommitment",
     "ReceiptCommitment", "ClassCount", "ClassType", "ClassHash",
     "CompiledClassHash", "GlobalStateRoot"}

\* C17: an importer built with no_check = true returns no
\* verification-mismatch error from verify_header, verify_transactions,
\* verify_events, verify_state_diff, verify_compile_classes or
\* apply_to_global_trie, whatever it is given.
C17_NoCheckNeverReportsMismatch ==
    imp.config.no_check => imp.out.err \notin VerificationMismatch

\* What Ok from verify_compile_classes stands for, for one declared class.
ClassAccepted(class, check_against) ==
    /\ class.class_hash \in DOMAIN check_against
    /\ check_against[class.class_hash].kind = class.class_info
    /\ class.class_info = "Sierra" =>
        /\ class.compiled_class_hash = check_against[class.class_hash].hash
        /\ class.compiled_class_hash = class.compile_to_casm
    /\ ~imp.config.trust_class_hashes =>
        class.class_hash = class.compute_class_hash

\* C18: with no_check false, verify_compile_classes returns Ok only if
\* there are as many declared classes as entries of check_against, every
\* declared class hash is a key of check_against whose marker has the
\* class's type, every Sierra class declares the compiled class hash that
\* check_against expects and that compiling it to CASM gives, and, unless
\* trust_class_hashes is set, every class hash equals its recomputation.
C18_OkOnlyForVerifiedClasses ==
    (imp.op = "verify_compile_classes" /\ ~imp.config.no_check /\ imp.out.ok) =>
        /\ Len(imp.in.declared_classes) = Cardinality(DOMAIN imp.in.check_against)
        /\ \A i \in 1 .. Len(imp.in.declared_classes) :
                ClassAccepted(imp.in.declared_classes[i], imp.in.check_against)

\* A Sierra class is accepted on trust_class_hashes although its class
\* hash is not the recomputed one.
C18_Witness ==
    /\ imp.op = "verify_compile_classes"
    /\ ~imp.config.no_check
    /\ imp.config.trust_class_hashes
    /\ imp.out.ok
    /\ Len(imp.in.declared_classes) = 1
    /\ imp.in.declared_classes[1].class_info = "Sierra"
    /\ imp.in.declared_classes[1].class_hash
           # imp.in.declared_classes[1].compute_class_hash


(***************************************************************************)
(* Properties of the trie database.                                        *)
(***************************************************************************)
\* C14: a get through a transaction, for a key its overlay does not hold,
\* returns the value the key had in the transaction's snapshot, also when
\* the live database was written to after the snapshot was taken.
C14_GetReadsSnapshot ==
    (/\ bonsai.res.op = "tx_get"
     /\ bonsai.txs[bonsai.res.tx].changed[bonsai.res.key] = Untouched)
        => bonsai.res.val = bonsai.txs[bonsai.res.tx].snapshot[bonsai.res.key]

TxWrites == {"tx_insert", "tx_remove", "tx_write_batch"}

\* C15: insert, remove and write_batch on a transaction leave the live
\* database, the snapshots and every other transaction as they were, so
\* that what the database and the other transactions return for any key
\* is unchanged; only get on the same transaction sees the write.
C15_TransactionWritesStayInOverlay ==
    [][bonsai'.res.op \in TxWrites =>
        /\ bonsai'.db = bonsai.db
        /\ bonsai'.snapshots = bonsai.snapshots
        /\ Len(bonsai'.txs) = Len(bonsai.txs)
        /\ \A key \in BKeys :
            /\ BonsaiDb_get(bonsai'.db, key) = BonsaiDb_get(bonsai.db, key)
            /\ \A u \in 1 .. Len(bonsai.txs) :
                /\ BonsaiTransaction_contains(bonsai'.txs[u], key)
                       = BonsaiTransaction_contains(bonsai.txs[u], key)
                /\ u # bonsai'.res.tx =>
                    /\ bonsai'.txs[u] = bonsai.txs[u]
                    /\ BonsaiTransaction_get(bonsai'.txs[u], bonsai'.db, key)
                           = BonsaiTransaction_get(bonsai.txs[u], bonsai.db, key)]_vars

\* One of two transactions has inserted a value that get on it returns,
\* while the database and the other transaction do not have it.
C15_Witness ==
    /\ bonsai.res.op = "tx_insert"
    /\ Len(bonsai.txs) = 2
    /\ LET t == bonsai.res.tx
           u == 3 - bonsai.res.tx
           key == bonsai.res.key
       IN  /\ BonsaiTransaction_get(bonsai.txs[t], bonsai.db, key) \in BValues
           /\ BonsaiDb_get(bonsai.db, key)
                  # BonsaiTransaction_get(bonsai.txs[t], bonsai.db, key)
           /\ BonsaiTransaction_get(bonsai.txs[u], bonsai.db, key)
                  # BonsaiTransaction_get(bonsai.txs[t], bonsai.db, key)


\* C20: get_by_prefix(p) returns exactly the (key, value) pairs of the
\* mapped column whose key starts with p, in ascending key order, and no
\* other pair.
C20_PrefixScanIsExact ==
    scan.called =>
        LET matching == InKeyOrder({k \in scan.keys : starts_with(k, scan.prefix)})
        IN  scan.out = [i \in 1 .. Len(matching) |->
                            [key |-> matching[i],
                             value |-> ValueOf(scan.column, matching[i])]]


\* Whether the RocksDB iterator of the scan from the prefix yields its Err:
\* the failing position exists and every item before it starts with the
\* prefix, so that the scan gets there.
IteratorErrorMet ==
    LET items == iterator_cf(scan.keys, scan.prefix)
    IN  /\ scan.err \in 1 .. Len(items)
        /\ \A i \in 1 .. scan.err - 1 : starts_with(items[i], scan.prefix)

\* C21: after remove_by_prefix(p) returns Ok, no key starting with p remains
\* in the mapped column, every key not starting with p and every key of the
\* other column is unchanged, and the deletions were one atomic batch.
C21_RemoveByPrefixIsExact ==
    (scan.removed /\ scan.res = "Ok") =>
        /\ scan.after[scan.column]
              = {k \in scan.keys : ~starts_with(k, scan.prefix)}
        /\ scan.after[OtherColumn(scan.column)] = scan.other
        /\ Len(scan.writes) = 1

\* C22: an engine error met during get_by_prefix or remove_by_prefix (an Err
\* of the iterator in the middle of the scan, a failed write of the batch)
\* is returned as an error: the operation does not return Ok.
C22_EngineErrorsSurface ==
    ((scan.called \/ scan.removed)
        /\ (IteratorErrorMet \/ (scan.removed /\ scan.werr)))
    => scan.res = "Err"

\* C23: set(Some(n)) followed by get() returns Some(n) with stored value
\* n + 1, for every n up to and including u64::MAX, and set(None) followed
\* by get() returns None with stored value 0.
C23_SetThenGetRoundTrips ==
    /\ BlockNStatus_get(cell) = lastStore
    /\ cell = IF lastStore = None THEN 0 ELSE lastStore + 1

\* The request of the events harness, resolved: the latest stored block and
\* the first and last block asked for.
QueryLatest == Starknet_get_block_n(rpc.chain, BlockId_Latest)
QueryFrom == filter_block_n(rpc.chain, QueryLatest, rpc.filter.from_block, 0)
QueryTo == filter_block_n(rpc.chain, QueryLatest, rpc.filter.to_block, QueryLatest)
\* The receipts of block n; the block after the latest is the pending one.
ReceiptsAt(n) == IF n <= QueryLatest THEN rpc.chain[n + 1] ELSE rpc.pending
NumberAt(n) == IF n <= QueryLatest THEN n ELSE None

RECURSIVE Concat(_)
Concat(seqs) == IF seqs = <<>> THEN <<>> ELSE Head(seqs) \o Concat(Tail(seqs))

\* Everything the calls so far returned, in the order returned.
Collected == Concat(rpc.pages)

\* The events of block n that the filter of the request lets through.
FilteredAt(n) ==
    get_block_events(NumberAt(n), ReceiptsAt(n), rpc.filter.address, rpc.filter.keys)
\* The same for blocks a..b, block after block.
FilteredIn(a, b) == Concat([i \in 1 .. (b - a + 1) |-> FilteredAt(a + i - 1)])

\* Some call has returned a page.
Paged == rpc.pages # <<>>
\* The latest call returned a token (block_n, event_n).
HasToken == rpc.st = "paging" /\ rpc.token # <<>>

\* Every page holds at most chunk_size events, and the pages up to the null
\* token are the matching events of from_block..=to_block, each once, in
\* block, receipt, event order, in at most one call more than there are
\* events.
PagesAreTheEvents ==
    Paged =>
        /\ \A i \in 1 .. Len(rpc.pages) : Len(rpc.pages[i]) <= rpc.filter.chunk_size
        /\ Len(rpc.pages) <= Len(FilteredIn(QueryFrom, QueryTo)) + 1
        /\ rpc.st = "done" => Collected = FilteredIn(QueryFrom, QueryTo)

\* A returned token is a position in the matching events: what lies before
\* it is what has been returned.
TokenIsAPosition ==
    HasToken =>
        /\ rpc.token[1] \in QueryFrom .. QueryTo
        /\ rpc.token[2] <= Len(FilteredAt(rpc.token[1]))
        /\ Collected = FilteredIn(QueryFrom, rpc.token[1] - 1)
                          \o SubSeq(FilteredAt(rpc.token[1]), 1, rpc.token[2])

\* C24, as claimed: paging from no token to the null token yields every
\* matching event of from_block..=to_block once and in order, in pages of at
\* most chunk_size, and a returned token designates the first matching event
\* not yet returned: there is an event at its place.
C24_TokenDesignatesNextEvent ==
    /\ PagesAreTheEvents
    /\ TokenIsAPosition
    /\ HasToken => rpc.token[2] < Len(FilteredAt(rpc.token[1]))

\* C24, amended: the same, with the token a position only: the events before
\* (block_n, event_n) are those returned so far; the place may be the end of
\* its block, and of all events, the next page then being empty.
C24_PagingYieldsEveryEventOnce ==
    /\ PagesAreTheEvents
    /\ TokenIsAPosition

\* Three pages over two blocks, the last token at the very end and the last
\* page empty.
C24_Witness ==
    /\ rpc.st = "done"
    /\ Len(rpc.pages) >= 3
    /\ rpc.pages[Len(rpc.pages)] = <<>>
    /\ \E i, j \in 1 .. Len(Collected) :
            Collected[i].block_number # Collected[j].block_number
    /\ Collected = FilteredIn(QueryFrom, QueryTo)

\* The events of block n as the block holds them, unfiltered, receipt after
\* receipt.
EmittedAt(n) ==
    Concat([r \in 1 .. Len(ReceiptsAt(n)) |->
              [k \in 1 .. Len(ReceiptsAt(n)[r]) |->
                  [from_address |-> ReceiptsAt(n)[r][k].from_address,
                   keys |-> ReceiptsAt(n)[r][k].keys,
                   block_number |-> NumberAt(n),
                   transaction_hash |-> r]]])
EmittedIn(a, b) == Concat([i \in 1 .. (b - a + 1) |-> EmittedAt(a + i - 1)])

\* An event matches: it has a key at every position of the filter, allowed
\* by that position, and comes from the address asked for, if one is.
Matches(event) ==
    /\ \A i \in 1 .. Len(rpc.filter.keys) :
          /\ Len(event.keys) >= i
          /\ (rpc.filter.keys[i] = {} \/ event.keys[i] \in rpc.filter.keys[i])
    /\ (rpc.filter.address = None \/ event.from_address = rpc.filter.address)

\* C25: get_events returns exactly the events that match the keys filter
\* (every position of the filter met by a key of the event, an empty
\* position by any key; an empty filter by every event) and the address
\* filter, in their original order.
C25_ReturnsExactlyTheMatchingEvents ==
    /\ \A i \in 1 .. Len(Collected) : Matches(Collected[i])
    /\ rpc.st = "done" =>
          Collected = SelectSeq(EmittedIn(QueryFrom, QueryTo), Matches)

\* A two-position filter with an open first position keeps the event that
\* has the key asked for in second place and drops the event with one key.
C25_Witness ==
    /\ rpc.st = "done"
    /\ Len(rpc.filter.keys) = 2
    /\ rpc.filter.keys[1] = {}
    /\ rpc.filter.keys[2] = {1}
    /\ Len(Collected) = 1
    /\ Len(EmittedIn(QueryFrom, QueryTo)) = 2
    /\ \E i \in 1 .. 2 : Len(EmittedIn(QueryFrom, QueryTo)[i].keys) = 1

\* The first call has returned.
EventsCalled == rpc.st # "paging" \/ rpc.pages # <<>>
\* The id names a block number beyond the latest stored block.
BeyondLatest(id) == id.tag = "number" /\ id.n >= Len(rpc.chain)
NoBlockToFind ==
    \/ rpc.chain = <<>>
    \/ BeyondLatest(rpc.filter.from_block)
    \/ BeyondLatest(rpc.filter.to_block)

\* C26, as claimed: get_events returns BlockNotFound when the chain has no
\* block, or from_block or to_block names a block beyond the latest.
C26_BlockNotFound ==
    (EventsCalled /\ NoBlockToFind)
        => (rpc.st = "err" /\ rpc.err = "BlockNotFound")

\* C26, amended: it does so for a request within the limits on filter keys
\* and chunk size, which are checked first and have their own errors.
C26_BlockNotFoundWithinLimits ==
    (/\ EventsCalled
     /\ NoBlockToFind
     /\ Len(rpc.filter.keys) <= MAX_EVENTS_KEYS
     /\ rpc.filter.chunk_size <= MAX_EVENTS_CHUNK_SIZE)
        => (rpc.st = "err" /\ rpc.err = "BlockNotFound")

\* from_block = 1 when only block 0 is stored.
C26_Witness ==
    /\ rpc.st = "err"
    /\ rpc.err = "BlockNotFound"
    /\ Len(rpc.chain) = 1
    /\ rpc.filter.from_block = BlockId_Number(1)
    /\ rpc.filter.to_block = BlockId_none

\* C27: of two workers in process_job for the same job at most one passes
\* the update to LockedForProcessing and invokes the handler's process_job;
\* a worker that read the job before the other's update fails that update
\* on the outdated version, and no worker that did not pass invokes the
\* handler.
C27_AtMostOneWorkerProcesses ==
    /\ Cardinality(job.passed) <= 1
    /\ Len(job.invoked) <= 1
    /\ \A i \in 1 .. Len(job.invoked) : job.invoked[i] \in job.passed
    /\ \A w \in Workers :
          (/\ job.passed # {}
           /\ w \notin job.passed
           /\ job.w[w].pc = "failed"
           /\ job.w[w].item # <<>>)
          => job.w[w].at = "update_job_status"

\* Both workers read the job as Created; one has locked it and called the
\* handler, the other has failed its update on the version.
C27_Witness ==
    /\ job.invoked = <<1>>
    /\ job.w[2].pc = "failed"
    /\ job.w[2].at = "update_job_status"
    /\ job.w[2].item # <<>>
    /\ job.w[2].item[1].status = "Created"
    /\ job.w[1].item[1].version = job.w[2].item[1].version

\* The pipelines of the gateway forward sync.
GatewayPipelines == {"blocks", "classes", "apply_state"}
\* The sequential step of pipeline p has committed, in order and one by one,
\* the blocks after those imported before run() up to target_height, which
\* leaves every block up to target_height stored for every facet.
CommittedUpToTarget(p) ==
    /\ seqLog[p] = [i \in 1 .. Len(seqLog[p]) |-> TargetHeight - Len(seqLog[p]) + i]
    /\ seqLog[p] = seqLog["blocks"]
    /\ \A f \in SixFacets :
          /\ BlockNStatus_get(head[f]) = TargetHeight
          /\ \A b \in 0 .. TargetHeight : b \in saved[f]

\* C28: absent step failures and under fair scheduling run(target_height)
\* eventually returns Ok, and it returns Ok only with all three pipelines
\* empty and every block from the starting block up to target_height
\* committed by the blocks, classes and apply-state sequential steps.
C28_RunReturnsOkWhenAllCommitted ==
    /\ <>(runState = "ok")
    /\ [](runState = "ok" =>
            \A p \in GatewayPipelines :
                queue[p] = <<>> /\ CommittedUpToTarget(p))

\* run() on an empty database has returned Ok with every block from genesis
\* to target_height through the three sequential steps.
C28_Witness ==
    /\ runState = "ok"
    /\ lastStep.kind = "return_ok"
    /\ \A p \in GatewayPipelines :
          CommittedUpToTarget(p) /\ Len(seqLog[p]) = TargetHeight + 1

\* C29: the loop pushes into the blocks pipeline only when
\* can_schedule_more() is true, and what it pushes is the single-block range
\* [n, n+1) of the next input block n, never beyond target_height, the next
\* input block then being n+1: consecutive, no gap, no duplicate.
C29_PushesOneBlockAtATimeInOrder ==
    [][/\ Len(queue'["blocks"]) > Len(queue["blocks"]) =>
            /\ can_schedule_more("blocks")
            /\ nextBlock <= TargetHeight
            /\ Len(queue'["blocks"]) = Len(queue["blocks"]) + 1
            /\ queue'["blocks"][Len(queue'["blocks"])].start = nextBlock
            /\ queue'["blocks"][Len(queue'["blocks"])].len = 1
            /\ nextBlock' = nextBlock + 1
       /\ (~p2p_sync /\ nextBlock' # nextBlock) =>
            \/ Len(queue'["blocks"]) > Len(queue["blocks"])
            \/ restarts' # restarts]_vars

\* The loop was held back after block 0 and pushed block 1 once block 0 had
\* left the blocks pipeline.
C29_Witness ==
    /\ ~p2p_sync
    /\ restarts = 0
    /\ lastStep = [kind |-> "push", p |-> "blocks", start |-> 1, len |-> 1]
    /\ emitted = <<0>>

\* C30: every block that becomes fully imported during run is notified to
\* metrics exactly once, in ascending order, and none before all six of its
\* facets have been imported.
C30_NotifiedOnceWhenFullyImported ==
    /\ \A i, j \in 1 .. Len(notified) : i < j => notified[i] < notified[j]
    /\ \A i \in 1 .. Len(notified) :
          \A f \in SixFacets : BlockNStatus_get(head[f]) >= notified[i]
    /\ (restarts = 0 /\ runState # "err" /\ AllSixSome(head)) =>
          \A b \in 0 .. MinOfSix(head) : \E i \in 1 .. Len(notified) : notified[i] = b

(***************************************************************************)
(* Properties of the job's calls.                                          *)
(***************************************************************************)
\* The last call on the job: the row it found and what it did.
CallOp == job.last.op
CallBefore == job.last.before[1]
CallDid == job.last.did[1]
CallEnqueuedNothing == CallDid.pq = 0 /\ CallDid.vq = 0

\* The statuses a call acts on.
CallAllowed ==
    IF CallOp = "process_job"
    THEN CallBefore.status \in {"Created", "VerificationFailed"}
    ELSE CallBefore.status = "PendingVerification"

\* C31: process_job invokes the handler and changes the job only when it
\* finds the job Created or VerificationFailed, verify_job only when it finds
\* it PendingVerification; on any other status the call returns an error,
\* leaves the job as it was and enqueues nothing.
C31_CallsActOnlyOnTheirStatuses ==
    CallOp # "none" =>
       /\ (CallDid.invoked \/ job.row # CallBefore) => CallAllowed
       /\ ~CallAllowed =>
             /\ ~CallDid.ok
             /\ job.row = CallBefore
             /\ ~CallDid.invoked
             /\ CallEnqueuedNothing

\* process_job was called on a Completed job and returned an error.
C31_Witness ==
    /\ CallOp = "process_job"
    /\ CallBefore.status = "Completed"
    /\ ~CallDid.ok
    /\ job.row.status = "Completed"

FailedAfterLock == CallOp = "process_job" /\ CallDid.invoked /\ ~CallDid.ok

\* C36 as stated: whichever await fails after the job was marked
\* LockedForProcessing, the job stays LockedForProcessing, its attempt
\* counter is not incremented and nothing is enqueued.
C36_FailureLeavesJobLocked ==
    FailedAfterLock =>
       /\ job.row.status = "LockedForProcessing"
       /\ job.row.attempts = CallBefore.attempts
       /\ CallEnqueuedNothing

\* C36: when the handler's process_job or the database update after it
\* fails, the job stays LockedForProcessing with its attempt counter as it
\* was and nothing enqueued, and every later call on the locked job returns
\* an error and leaves it alone; when only the push to the verification
\* queue fails, the job is PendingVerification with the attempt counted and
\* nothing enqueued.
C36_HandlerOrUpdateFailureLeavesJobLocked ==
    /\ (FailedAfterLock /\ job.last.fail # "add_job_to_verification_queue") =>
          /\ job.row.status = "LockedForProcessing"
          /\ job.row.attempts = CallBefore.attempts
          /\ CallEnqueuedNothing
    /\ (FailedAfterLock /\ job.last.fail = "add_job_to_verification_queue") =>
          /\ job.row.status = "PendingVerification"
          /\ job.row.attempts = CallBefore.attempts + 1
          /\ CallEnqueuedNothing
    /\ (CallOp # "none" /\ CallBefore.status = "LockedForProcessing") =>
          /\ ~CallDid.ok
          /\ ~CallDid.invoked
          /\ job.row = CallBefore
          /\ CallEnqueuedNothing

\* The handler failed on a retried job, and a later verify_job found the job
\* locked.
C36_Witness ==
    /\ CallOp = "verify_job"
    /\ CallBefore.status = "LockedForProcessing"
    /\ CallBefore.attempts = 1
    /\ job.handled = 1
    /\ job.row.status = "LockedForProcessing"

\* C37 as stated: a job taken from the queues only is enqueued for
\* verification on a PENDING answer at most max_verification_attempts
\* times.
C37_PendingIsReenqueuedBoundedly ==
    ~job.direct => job.pending <= job.max_verification_attempts

\* C38 as stated: the handler's process_job has succeeded at most
\* max(1, max_process_attempts) times, and the attempt counter of the job
\* is that number.
C38_AttemptsAreBoundedAndCounted ==
    /\ job.handled <= (IF job.max_process_attempts > 1
                       THEN job.max_process_attempts ELSE 1)
    /\ job.row.attempts = job.handled

\* C39 as stated: at most one job exists for an internal id and job type,
\* and a create_job call for a pair that has a job stores and enqueues
\* nothing, also when two calls for the same pair run at once.
C39_AtMostOneJobPerInternalId ==
    /\ \A i \in InternalIds : job.rows[i] <= 1
    /\ \A i \in InternalIds :
          Len(SelectSeq(job.queue, LAMBDA m : m = i)) <= 1

\* C34: a call of apply_to_global_trie on a non-empty range that returns
\* GlobalStateRoot, or that fails because the header of the last block of
\* the range is not there, leaves the global trie at the root the state
\* diffs of the whole range lead to: the trie is mutated before the root
\* is looked up and compared, and is not put back.
C34_FailedApplyLeavesTrieAdvanced ==
    (/\ imp.op = "apply_to_global_trie"
     /\ imp.in.block_range.len > 0
     /\ ~imp.out.ok) =>
        /\ imp.out.err \in {"GlobalStateRoot", "Internal"}
        /\ imp.out.err = "Internal" <=> imp.in.header_root = None
        /\ imp.root = db_apply_to_global_trie(imp.in.root, imp.in.state_diffs)

\* A state diff that moves the root from 0 to 1, against a header whose
\* root is 0: GlobalStateRoot is returned and the trie is at 1.
C34_Witness ==
    /\ imp.op = "apply_to_global_trie"
    /\ imp.in.block_range = [start |-> 0, len |-> 1]
    /\ imp.in.root = 0
    /\ imp.in.header_root = 0
    /\ imp.out = Err("GlobalStateRoot", 1, 0)
    /\ imp.root = 1

\* C35 as stated: for every transaction and key, contains(key) is true
\* exactly when get(key) returns Some.
C35_ContainsAgreesWithGet ==
    \A t \in 1 .. Len(bonsai.txs), key \in BKeys :
        BonsaiTransaction_contains(bonsai.txs[t], key)
            <=> BonsaiTransaction_get(bonsai.txs[t], bonsai.db, key) # None

\* C40 as stated: a ClassType error of verify_compile_classes carries as
\* got the type of a declared class as it was received and as expected the
\* type check_against records for that class hash.
C40_ClassTypeReportsReceivedAndRecorded ==
    (/\ imp.op = "verify_compile_classes"
     /\ ~imp.out.ok
     /\ imp.out.err = "ClassType") =>
        \E i \in 1 .. Len(imp.in.declared_classes) :
            LET class == imp.in.declared_classes[i] IN
            /\ class.class_hash \in DOMAIN imp.in.check_against
            /\ imp.out.got = class.class_info
            /\ imp.out.expected = imp.in.check_against[class.class_hash].kind

\* The four verifications of the gateway blocks parallel step succeed for
\* the answer the gateway gave for block_n.
GatewayVerifies(config, block_n, value) ==
    LET parsed == GatewayBlock_try_from(value) IN
    /\ parsed.ok
    /\ LET b == parsed.val
           sd == verify_state_diff(config, b.state_diff, b.header, TRUE)
           tx == verify_transactions(config, b.transactions, b.header, TRUE)
           ev == verify_events(config, b.events, b.header, TRUE)
       IN  /\ sd.ok
           /\ tx.ok
           /\ ev.ok
           /\ verify_header(config, block_n,
                  GatewaySyncSteps_filled_header(b.header, sd.val, tx.val[1],
                                                 tx.val[2], ev.val)).ok

\* Nothing is stored for the j-th block of the step's range.
NothingStoredFor(j) == imp.stores[imp.in.start + j - 1] = EmptyStore
AnswerVerifies(j) ==
    GatewayVerifies(imp.config, imp.in.start + j - 1, imp.in.values[j])

\* C33: after a gateway blocks parallel step on a range nothing of which
\* was stored before, a block of the range has a header, state diff,
\* transactions or events stored only if verify_state_diff,
\* verify_transactions, verify_events and verify_header all succeeded for it
\* and for every block of the range before it; a block for which one of
\* them fails, and every later block of the range, has nothing stored.
C33_NothingSavedUnlessVerified ==
    imp.op = "gateway_parallel_step" =>
        \A j \in 1 .. Len(imp.in.values) :
            /\ ~NothingStoredFor(j) => \A i \in 1 .. j : AnswerVerifies(i)
            /\ ~AnswerVerifies(j) =>
                  /\ ~imp.out.ok
                  /\ \A i \in j .. Len(imp.in.values) : NothingStoredFor(i)

\* The gateway's answer for block 0 parses and fails a verification, the
\* answer for block 1 would pass them all: the step fails and neither block
\* has anything stored.
C33_Witness ==
    /\ imp.op = "gateway_parallel_step"
    /\ ~imp.config.no_check
    /\ GatewayBlock_try_from(imp.in.values[1]).ok
    /\ ~AnswerVerifies(1)
    /\ AnswerVerifies(2)
    /\ ~imp.out.ok
    /\ NothingStoredFor(1)
    /\ NothingStoredFor(2)
=============================================================================
